---- MODULE Spec2Model ----
(***************************************************************************)
(* Model of the webmerge line-diff engine (src/src/App.jsx):               *)
(* computeLCS, computeLineDiff, getLineDecorations, computeViewZones.      *)
(*                                                                         *)
(* A line is a sequence of one-character strings, so that processLine      *)
(* (whitespace collapsing, trimming, lower-casing) is computed character   *)
(* by character.  Array indices are 0-based in the source and 1-based      *)
(* here; every place where the shift matters says so.                      *)
(***************************************************************************)
EXTENDS Integers, Sequences, FiniteSets, TLC

\* Largest number of lines in either input.
MaxLen == 3

\* JavaScript null in a line-number field (real line numbers are >= 1).
NullNum == -1

\* JavaScript null in a line-text field: not a sequence of characters of Chars.
NullLine == <<"null">>

Chars == {"a", "A", " "}

\* The input lines the model draws from: a whitespace-only line, a line, and
\* a line that differs from it by a leading space, a doubled inner space and
\* an upper-case letter (equal to it only when case and whitespace are both
\* ignored).  All three differ as raw text.
Lines ==
  { <<" ">>,
    <<"a", " ", "a">>,
    <<" ", "A", " ", " ", "a">> }

Booleans == {TRUE, FALSE}

OptionSets ==
  [ignoreWhitespace : Booleans, ignoreCase : Booleans, ignoreBlankLines : Booleans]

DefaultOptions ==
  [ignoreWhitespace |-> FALSE, ignoreCase |-> FALSE, ignoreBlankLines |-> FALSE]

RECURSIVE SeqsUpTo(_, _)
SeqsUpTo(S, n) ==
  IF n = 0 THEN { <<>> }
  ELSE LET shorter == SeqsUpTo(S, n - 1)
       IN  shorter \cup { Append(s, x) : s \in { t \in shorter : Len(t) = n - 1 }, x \in S }

LineSeqs == SeqsUpTo(Lines, MaxLen)

Max(a, b) == IF a > b THEN a ELSE b

Min(a, b) == IF a < b THEN a ELSE b

----------------------------------------------------------------------------
(* String primitives used by processLine and by the blank-line filter.     *)

IsSpace(c) == c = " "

\* String.prototype.toLowerCase, character by character.
ToLowerChar(c) == IF c = "A" THEN "a" ELSE c

ToLowerCase(line) == [k \in 1..Len(line) |-> ToLowerChar(line[k])]

\* line.replace(/\s+/g, ' '): every maximal whitespace run becomes one space.
RECURSIVE CollapseWhitespace(_)
CollapseWhitespace(line) ==
  IF line = <<>> THEN <<>>
  ELSE IF IsSpace(Head(line))
       THEN IF Len(line) > 1 /\ IsSpace(line[2])
            THEN CollapseWhitespace(Tail(line))
            ELSE <<" ">> \o CollapseWhitespace(Tail(line))
       ELSE <<Head(line)>> \o CollapseWhitespace(Tail(line))

RECURSIVE TrimStart(_)
TrimStart(line) ==
  IF line # <<>> /\ IsSpace(Head(line)) THEN TrimStart(Tail(line)) ELSE line

RECURSIVE TrimEnd(_)
TrimEnd(line) ==
  IF line # <<>> /\ IsSpace(line[Len(line)])
  THEN TrimEnd(SubSeq(line, 1, Len(line) - 1))
  ELSE line

\* String.prototype.trim
Trim(line) == TrimEnd(TrimStart(line))

\* Faulty variant of processLine: whitespace runs are collapsed but the ends
\* are not trimmed.
processLineNoTrim(line, options) ==
  LET afterWs == IF options.ignoreWhitespace
                 THEN CollapseWhitespace(line)
                 ELSE line
  IN  IF options.ignoreCase THEN ToLowerCase(afterWs) ELSE afterWs

\* processLine of computeLineDiff
processLine(line, options) ==
  LET afterWs == IF options.ignoreWhitespace
                 THEN Trim(CollapseWhitespace(line))
                 ELSE line
  IN  IF options.ignoreCase THEN ToLowerCase(afterWs) ELSE afterWs

\* `if (line.trim())`: a line survives the blank-line filter when its trim is
\* a non-empty (truthy) string.
IsBlank(line) == Trim(line) = <<>>

----------------------------------------------------------------------------
(* computeLCS: the dynamic-programming length table and the backtrack.     *)
(* dp is a sequence of m+1 rows of n+1 cells; the source's dp[i][j] is     *)
(* dp[i + 1][j + 1] here, and the source's left[i - 1] is left[i].         *)

DpAt(dp, i, j) == dp[i + 1][j + 1]

\* Faulty variant of DpCell: on unequal keys only the cell to the left is
\* carried over, the cell above is forgotten.
DpCellLeftOnly(left, right, prevRow, row, i, j) ==
  IF left[i] = right[j]
  THEN prevRow[j] + 1
  ELSE row[j]

\* One cell of the table: the body of the inner loop.
DpCell(left, right, prevRow, row, i, j) ==
  IF left[i] = right[j]
  THEN prevRow[j] + 1
  ELSE Max(prevRow[j + 1], row[j])

\* Row i of the table (i >= 1), filled for j = 1..n from the row above.
RECURSIVE DpRow(_, _, _, _, _)
DpRow(left, right, prevRow, row, i) ==
  LET j == Len(row)
  IN  IF j > Len(right) THEN row
      ELSE DpRow(left, right, prevRow,
                 Append(row, DpCell(left, right, prevRow, row, i, j)), i)

\* The whole table: row 0 is all zeros, rows 1..m follow in order.
RECURSIVE DpRows(_, _, _)
DpRows(left, right, dp) ==
  LET i == Len(dp)
  IN  IF i > Len(left) THEN dp
      ELSE DpRows(left, right, Append(dp, DpRow(left, right, dp[i], <<0>>, i)))

DpTable(left, right) ==
  DpRows(left, right, << [j \in 1..(Len(right) + 1) |-> 0] >>)

\* Faulty variant of MoveUp: unequal keys always move up.
MoveUpAlways(dp, i, j) == i > 0

\* Faulty variant of MoveUp: an exact tie also moves up.
MoveUpOnTie(dp, i, j) == DpAt(dp, i - 1, j) >= DpAt(dp, i, j - 1)

\* The tie-break of the backtrack: move up (i--) only when the cell above is
\* strictly larger than the cell to the left; otherwise move left (j--).
MoveUp(dp, i, j) == DpAt(dp, i - 1, j) > DpAt(dp, i, j - 1)

\* The backtrack loop from (i, j); lcs.unshift puts each match in front.
RECURSIVE Backtrack(_, _, _, _, _, _)
Backtrack(left, right, dp, i, j, lcs) ==
  IF ~(i > 0 /\ j > 0) THEN lcs
  ELSE IF left[i] = right[j]
       THEN Backtrack(left, right, dp, i - 1, j - 1,
                      << [leftIndex |-> i - 1, rightIndex |-> j - 1, value |-> left[i]] >>
                        \o lcs)
       ELSE IF MoveUp(dp, i, j)
            THEN Backtrack(left, right, dp, i - 1, j, lcs)
            ELSE Backtrack(left, right, dp, i, j - 1, lcs)

computeLCS(left, right) ==
  Backtrack(left, right, DpTable(left, right), Len(left), Len(right), <<>>)

----------------------------------------------------------------------------
(* computeLineDiff                                                         *)

DeletedEntry(line, num) ==
  [type |-> "deleted", leftLine |-> line, leftLineNum |-> num,
   rightLine |-> NullLine, rightLineNum |-> NullNum]

\* Faulty variant of AddedEntry: the number is stored in the left field.
AddedEntryLeftNum(line, num) ==
  [type |-> "added", leftLine |-> NullLine, leftLineNum |-> num,
   rightLine |-> line, rightLineNum |-> NullNum]

AddedEntry(line, num) ==
  [type |-> "added", leftLine |-> NullLine, leftLineNum |-> NullNum,
   rightLine |-> line, rightLineNum |-> num]

\* Faulty variant of UnchangedEntry: the left text is stored on both sides.
UnchangedEntryLeftText(lLine, lNum, rLine, rNum) ==
  [type |-> "unchanged", leftLine |-> lLine, leftLineNum |-> lNum,
   rightLine |-> lLine, rightLineNum |-> rNum]

UnchangedEntry(lLine, lNum, rLine, rNum) ==
  [type |-> "unchanged", leftLine |-> lLine, leftLineNum |-> lNum,
   rightLine |-> rLine, rightLineNum |-> rNum]

\* Faulty variant of ModifiedEntry: the right line number is read from the
\* delete, which has none.
ModifiedEntryNumFromDelete(del, add) ==
  [type |-> "modified", leftLine |-> del.leftLine, leftLineNum |-> del.leftLineNum,
   rightLine |-> add.rightLine, rightLineNum |-> del.rightLineNum]

\* The modified entry built from the j-th delete and the j-th add of a block.
ModifiedEntry(del, add) ==
  [type |-> "modified", leftLine |-> del.leftLine, leftLineNum |-> del.leftLineNum,
   rightLine |-> add.rightLine, rightLineNum |-> add.rightLineNum]

\* The 0-based positions the blank-line filter keeps, in order.
RECURSIVE KeptIndices(_, _, _)
KeptIndices(lines, options, i) ==
  IF i >= Len(lines) THEN <<>>
  ELSE IF options.ignoreBlankLines /\ IsBlank(lines[i + 1])
       THEN KeptIndices(lines, options, i + 1)
       ELSE <<i>> \o KeptIndices(lines, options, i + 1)

\* leftMapping / rightMapping: filtered position -> original 0-based index.
Mapping(lines, options) == KeptIndices(lines, options, 0)

\* leftFiltered / rightFiltered
Filtered(lines, options) ==
  LET map == Mapping(lines, options)
  IN  [k \in 1..Len(map) |-> lines[map[k] + 1]]

\* leftProcessed / rightProcessed
Processed(lines, options) ==
  LET f == Filtered(lines, options)
  IN  [k \in 1..Len(f) |-> processLine(f[k], options)]

\* Faulty variant of LineNumOf: the 0-based index is stored as it is.
LineNumOfZeroBased(mapping, idx) == mapping[idx + 1]

\* Faulty variant of LineNumOf: the position among the filtered lines is
\* numbered, not the original position.
LineNumOfFiltered(mapping, idx) == idx + 1

\* The line number stored in an entry for filtered position idx (0-based).
LineNumOf(mapping, idx) == mapping[idx + 1] + 1

\* `while (leftIdx < bound) { push deleted; leftIdx++ }`
RECURSIVE PushDeletes(_, _, _, _, _)
PushDeletes(result, filtered, mapping, leftIdx, bound) ==
  IF leftIdx < bound
  THEN PushDeletes(Append(result, DeletedEntry(filtered[leftIdx + 1],
                                                LineNumOf(mapping, leftIdx))),
                   filtered, mapping, leftIdx + 1, bound)
  ELSE result

\* `while (rightIdx < bound) { push added; rightIdx++ }`
RECURSIVE PushAdds(_, _, _, _, _)
PushAdds(result, filtered, mapping, rightIdx, bound) ==
  IF rightIdx < bound
  THEN PushAdds(Append(result, AddedEntry(filtered[rightIdx + 1],
                                          LineNumOf(mapping, rightIdx))),
                filtered, mapping, rightIdx + 1, bound)
  ELSE result

\* The walk over the matches: the outer while loop of computeLineDiff.
\* Before a match the inner loops leave leftIdx = match.leftIndex and
\* rightIdx = match.rightIndex, unless an index is already past it.
RECURSIVE Walk(_, _, _, _, _, _, _, _)
Walk(lF, rF, lMap, rMap, lcs, leftIdx, rightIdx, st) ==
  IF ~(leftIdx < Len(lF) \/ rightIdx < Len(rF)) THEN st.result
  ELSE IF st.lcsIdx < Len(lcs)
       THEN LET match == lcs[st.lcsIdx + 1]
                lNext == Max(leftIdx, match.leftIndex)
                rNext == Max(rightIdx, match.rightIndex)
                r1    == PushDeletes(st.result, lF, lMap, leftIdx, match.leftIndex)
                r2    == PushAdds(r1, rF, rMap, rightIdx, match.rightIndex)
                r3    == Append(r2, UnchangedEntry(lF[lNext + 1], LineNumOf(lMap, lNext),
                                                   rF[rNext + 1], LineNumOf(rMap, rNext)))
            IN  Walk(lF, rF, lMap, rMap, lcs, lNext + 1, rNext + 1,
                     [result |-> r3, lcsIdx |-> st.lcsIdx + 1])
       ELSE LET r1 == PushDeletes(st.result, lF, lMap, leftIdx, Len(lF))
                r2 == PushAdds(r1, rF, rMap, rightIdx, Len(rF))
            IN  Walk(lF, rF, lMap, rMap, lcs, Len(lF), Len(rF),
                     [result |-> r2, lcsIdx |-> st.lcsIdx])

\* `result` of computeLineDiff: the raw operations, before merging, for the
\* matches lcsSeq.
RawDiff(leftLines, rightLines, options, lcsSeq) ==
  Walk(Filtered(leftLines, options), Filtered(rightLines, options),
       Mapping(leftLines, options), Mapping(rightLines, options),
       lcsSeq, 0, 0, [result |-> <<>>, lcsIdx |-> 0])

\* The end (exclusive, 1-based) of the maximal run of entries of type t
\* starting at position i.
RECURSIVE RunEnd(_, _, _)
RunEnd(result, i, t) ==
  IF i <= Len(result) /\ result[i].type = t THEN RunEnd(result, i + 1, t) ELSE i

\* Faulty variant of BlockEntry: every delete is paired with the last add.
BlockEntryLastAdd(deletes, adds, j) ==
  IF j <= Len(deletes) /\ j <= Len(adds) THEN ModifiedEntry(deletes[j], adds[Len(adds)])
  ELSE IF j <= Len(deletes) THEN deletes[j]
  ELSE adds[j]

\* What the source pushes for position j (1-based) of a delete/add block.
BlockEntry(deletes, adds, j) ==
  IF j <= Len(deletes) /\ j <= Len(adds) THEN ModifiedEntry(deletes[j], adds[j])
  ELSE IF j <= Len(deletes) THEN deletes[j]
  ELSE adds[j]

\* Faulty variant of MergeBlock: the loop stops at the shorter run, so the
\* excess deletes or adds are lost.
MergeBlockShorter(deletes, adds) ==
  IF Len(deletes) > 0 /\ Len(adds) > 0
  THEN [j \in 1..Min(Len(deletes), Len(adds)) |-> BlockEntry(deletes, adds, j)]
  ELSE deletes

\* Faulty variant of MergeBlock: runs are paired only when they are equally
\* long, otherwise both pass through.
MergeBlockEqualRuns(deletes, adds) ==
  IF Len(deletes) > 0 /\ Len(deletes) = Len(adds)
  THEN [j \in 1..Len(deletes) |-> BlockEntry(deletes, adds, j)]
  ELSE deletes \o adds

\* Faulty variant of MergeBlock: the block is pushed back to front, the
\* excess deletes or adds before the modified entries.
MergeBlockBackToFront(deletes, adds) ==
  IF Len(deletes) > 0 /\ Len(adds) > 0
  THEN [j \in 1..Max(Len(deletes), Len(adds)) |->
          BlockEntry(deletes, adds, Max(Len(deletes), Len(adds)) + 1 - j)]
  ELSE deletes

\* The entries one delete run and the add run after it are replaced by.
MergeBlock(deletes, adds) ==
  IF Len(deletes) > 0 /\ Len(adds) > 0
  THEN [j \in 1..Max(Len(deletes), Len(adds)) |-> BlockEntry(deletes, adds, j)]
  ELSE deletes

\* The merge loop from position i (1-based) of result.
RECURSIVE MergeFrom(_, _, _)
MergeFrom(result, i, merged) ==
  IF i > Len(result) THEN merged
  ELSE IF result[i].type = "deleted"
       THEN LET dEnd    == RunEnd(result, i, "deleted")
                aEnd    == RunEnd(result, dEnd, "added")
                deletes == SubSeq(result, i, dEnd - 1)
                adds    == SubSeq(result, dEnd, aEnd - 1)
            IN  MergeFrom(result, aEnd, merged \o MergeBlock(deletes, adds))
       ELSE MergeFrom(result, i + 1, Append(merged, result[i]))

MergeBlocks(result) == MergeFrom(result, 1, <<>>)

\* Every local of one call of computeLineDiff; merged is what it returns.
LineDiffRun(leftLines, rightLines, options) ==
  LET lP   == Processed(leftLines, options)
      rP   == Processed(rightLines, options)
      m    == computeLCS(lP, rP)
      raw  == RawDiff(leftLines, rightLines, options, m)
  IN  [leftProcessed |-> lP, rightProcessed |-> rP, lcs |-> m,
       result |-> raw, merged |-> MergeBlocks(raw)]

computeLineDiff(leftLines, rightLines, options) ==
  LineDiffRun(leftLines, rightLines, options).merged

----------------------------------------------------------------------------
(* getLineDecorations                                                      *)

LineNumOn(entry, side) ==
  IF side = "left" THEN entry.leftLineNum ELSE entry.rightLineNum

\* Faulty variant of ClassNameOf: a modified entry is marked on the left only.
ClassNameOfModifiedLeft(entry, side) ==
  IF entry.type = "deleted" /\ side = "left" THEN "diff-line-deleted"
  ELSE IF entry.type = "added" /\ side = "right" THEN "diff-line-added"
  ELSE IF entry.type = "modified" /\ side = "left" THEN "diff-line-modified"
  ELSE ""

\* className chosen for an entry on a side; "" when none applies.
ClassNameOf(entry, side) ==
  IF entry.type = "deleted" /\ side = "left" THEN "diff-line-deleted"
  ELSE IF entry.type = "added" /\ side = "right" THEN "diff-line-added"
  ELSE IF entry.type = "modified" THEN "diff-line-modified"
  ELSE ""

GlyphClassNameOf(entry, side) ==
  IF entry.type = "deleted" /\ side = "left" THEN "diff-glyph-deleted"
  ELSE IF entry.type = "added" /\ side = "right" THEN "diff-glyph-added"
  ELSE IF entry.type = "modified" THEN "diff-glyph-modified"
  ELSE ""

\* The decorations one entry contributes: none or one.
DecorationsOf(entry, side) ==
  IF LineNumOn(entry, side) = NullNum THEN <<>>
  ELSE IF ClassNameOf(entry, side) # ""
       THEN << [startLineNumber |-> LineNumOn(entry, side),
                endLineNumber |-> LineNumOn(entry, side),
                className |-> ClassNameOf(entry, side),
                glyphMarginClassName |-> GlyphClassNameOf(entry, side)] >>
       ELSE <<>>

RECURSIVE DecorationsFrom(_, _, _)
DecorationsFrom(diffSeq, side, k) ==
  IF k > Len(diffSeq) THEN <<>>
  ELSE DecorationsOf(diffSeq[k], side) \o DecorationsFrom(diffSeq, side, k + 1)

getLineDecorations(diffSeq, side) == DecorationsFrom(diffSeq, side, 1)

----------------------------------------------------------------------------
(* computeViewZones                                                        *)

hasLineOnThisSide(entry, side) ==
  IF side = "left" THEN entry.leftLineNum # NullNum ELSE entry.rightLineNum # NullNum

hasLineOnOtherSide(entry, side) ==
  IF side = "left" THEN entry.rightLineNum # NullNum ELSE entry.leftLineNum # NullNum

\* Faulty variant of Flush: the zone is placed one line too low.
FlushBelow(zones, currentLineNum, pendingPlaceholders) ==
  IF pendingPlaceholders > 0
  THEN Append(zones, [afterLineNumber |-> currentLineNum + 1,
                      heightInLines |-> pendingPlaceholders])
  ELSE zones

\* zones after flushing the pending placeholders (if any) after currentLineNum.
Flush(zones, currentLineNum, pendingPlaceholders) ==
  IF pendingPlaceholders > 0
  THEN Append(zones, [afterLineNumber |-> currentLineNum,
                      heightInLines |-> pendingPlaceholders])
  ELSE zones

\* Faulty variant of ZoneStep: the pending count is not reset after a flush.
ZoneStepNoReset(st, entry, side) ==
  IF hasLineOnThisSide(entry, side)
  THEN [zones |-> Flush(st.zones, st.currentLineNum, st.pendingPlaceholders),
        currentLineNum |-> LineNumOn(entry, side),
        pendingPlaceholders |-> st.pendingPlaceholders]
  ELSE IF hasLineOnOtherSide(entry, side)
       THEN [st EXCEPT !.pendingPlaceholders = @ + 1]
       ELSE st

\* The body of the forEach callback: st is (zones, currentLineNum,
\* pendingPlaceholders) before the entry; the result is the state after it.
ZoneStep(st, entry, side) ==
  IF hasLineOnThisSide(entry, side)
  THEN [zones |-> Flush(st.zones, st.currentLineNum, st.pendingPlaceholders),
        currentLineNum |-> LineNumOn(entry, side),
        pendingPlaceholders |-> 0]
  ELSE IF hasLineOnOtherSide(entry, side)
       THEN [st EXCEPT !.pendingPlaceholders = @ + 1]
       ELSE st

RECURSIVE ZonesFrom(_, _, _, _)
ZonesFrom(diffSeq, side, k, st) ==
  IF k > Len(diffSeq)
  THEN Flush(st.zones, st.currentLineNum, st.pendingPlaceholders)
  ELSE ZonesFrom(diffSeq, side, k + 1, ZoneStep(st, diffSeq[k], side))

computeViewZones(diffSeq, side) ==
  ZonesFrom(diffSeq, side, 1,
            [zones |-> <<>>, currentLineNum |-> 0, pendingPlaceholders |-> 0])

----------------------------------------------------------------------------
(* The state: the two inputs and the options, and everything the App       *)
(* derives from them in one render (its useMemo chain).                    *)

VARIABLES
  leftLines,        \* the leftLines argument of computeLineDiff
  rightLines,       \* the rightLines argument of computeLineDiff
  options,          \* the comparison options
  pc,               \* "input": nothing derived yet; "rendered": all derived
  leftProcessed,    \* comparison keys handed to computeLCS
  rightProcessed,
  lcs,              \* what computeLCS returned
  result,           \* the raw operations of computeLineDiff, before merging
  diff,             \* what computeLineDiff returned
  leftDecorations,
  rightDecorations,
  leftViewZones,
  rightViewZones,
  leftCode,         \* the text of the left editor
  rightCode,        \* the text of the right editor
  patch,            \* the text generateUnifiedPatch returned
  report,           \* what generateHTMLReport put into the report
  langCode,         \* the text given to detectLanguage
  matches,          \* the patterns whose regex.test(langCode) is true
  detected,         \* what detectLanguage returned
  leftLanguage,     \* the leftLanguage memo of the App
  rightLanguage,    \* the rightLanguage memo of the App
  isFormatting,     \* the isFormatting state of the App, per side
  pending,          \* per side, the call of formatCode that handleFormat awaits
  alerts,           \* the messages shown by alert(), oldest first
  diffIndices,      \* the diffIndices memo of the App
  currentDiffIndex  \* the currentDiffIndex state of the App

diffVars ==
  << leftLines, rightLines, options, pc, leftProcessed, rightProcessed, lcs,
     result, diff, leftDecorations, rightDecorations, leftViewZones, rightViewZones >>

exportVars == << leftCode, rightCode, patch, report >>

langVars == << langCode, matches, detected >>

appVars ==
  << leftLanguage, rightLanguage, isFormatting, pending, alerts, diffIndices,
     currentDiffIndex >>

vars == << diffVars, exportVars, langVars, appVars >>

\* The report before any export.
NoReport == [stats |-> [added |-> 0, deleted |-> 0, modified |-> 0, unchanged |-> 0],
             diffRows |-> <<>>]

\* No call of formatCode is awaited.
NoRequest == [code |-> <<"null">>, language |-> ""]

\* The variables of the App while the App is not modelled.
AppIdle ==
  /\ leftLanguage = [monaco |-> "", prettier |-> ""]
  /\ rightLanguage = [monaco |-> "", prettier |-> ""]
  /\ isFormatting = [left |-> FALSE, right |-> FALSE]
  /\ pending = [left |-> NoRequest, right |-> NoRequest]
  /\ alerts = <<>>
  /\ diffIndices = <<>>
  /\ currentDiffIndex = -1

\* The variables of detectLanguage while no detection is modelled.
LangIdle ==
  /\ langCode = <<>>
  /\ matches = {}
  /\ detected = [monaco |-> "", prettier |-> ""]

\* The variables of the exports while no export is modelled.
ExportIdle ==
  /\ leftCode = <<>>
  /\ rightCode = <<>>
  /\ patch = <<>>
  /\ report = NoReport

Init ==
  /\ leftLines \in LineSeqs
  /\ rightLines \in LineSeqs
  /\ options \in OptionSets
  /\ pc = "input"
  /\ leftProcessed = <<>>
  /\ rightProcessed = <<>>
  /\ lcs = <<>>
  /\ result = <<>>
  /\ diff = <<>>
  /\ leftDecorations = <<>>
  /\ rightDecorations = <<>>
  /\ leftViewZones = <<>>
  /\ rightViewZones = <<>>
  /\ ExportIdle
  /\ LangIdle
  /\ AppIdle

\* One render of the App: diff, decorations and view zones are recomputed
\* in full from the current texts and options.
Render ==
  /\ pc = "input"
  /\ pc' = "rendered"
  /\ \E run \in { LineDiffRun(leftLines, rightLines, options) } :
         /\ leftProcessed' = run.leftProcessed
         /\ rightProcessed' = run.rightProcessed
         /\ lcs' = run.lcs
         /\ result' = run.result
         /\ diff' = run.merged
  /\ leftDecorations' = getLineDecorations(diff', "left")
  /\ rightDecorations' = getLineDecorations(diff', "right")
  /\ leftViewZones' = computeViewZones(diff', "left")
  /\ rightViewZones' = computeViewZones(diff', "right")
  /\ UNCHANGED << leftLines, rightLines, options >>
  /\ UNCHANGED << exportVars, langVars, appVars >>

Next == Render

Spec == Init /\ [][Next]_vars

----------------------------------------------------------------------------
(* Vocabulary of the properties.  Nothing below is used by the model.      *)

Rendered == pc = "rendered"

Sides == {"left", "right"}

InputOn(side) == IF side = "left" THEN leftLines ELSE rightLines

LineOn(entry, side) == IF side = "left" THEN entry.leftLine ELSE entry.rightLine

\* A line that is empty or consists of whitespace only.
AllWhitespace(line) == \A k \in 1..Len(line) : IsSpace(line[k])

\* The 1-based positions of the input lines that take part in the diff.
Surviving(side) ==
  { n \in 1..Len(InputOn(side)) :
      ~(options.ignoreBlankLines /\ AllWhitespace(InputOn(side)[n])) }

\* The positions of diff whose entry carries line number n on the side.
EntriesAt(side, n) == { k \in 1..Len(diff) : LineNumOn(diff[k], side) = n }

TypesIn(entries) == { entries[k].type : k \in 1..Len(entries) }

CountType(entries, t) == Cardinality({ k \in 1..Len(entries) : entries[k].type = t })

\* C1. Partition: in the diff computeLineDiff returns, for either side and
\* any options, every surviving line position (all positions, or the
\* non-blank ones under ignoreBlankLines) is the line number of exactly one
\* entry, and no entry carries a number that is not a surviving position.
C1_Partition ==
  Rendered =>
    \A side \in Sides :
      /\ \A n \in Surviving(side) : Cardinality(EntriesAt(side, n)) = 1
      /\ \A k \in 1..Len(diff) :
           LineNumOn(diff[k], side) # NullNum =>
             LineNumOn(diff[k], side) \in Surviving(side)

\* A diff under ignoreBlankLines with a blank line dropped on the left, and
\* a block where two deletes met one add (one pair and one excess delete).
C1_Witness ==
  /\ Rendered
  /\ options.ignoreBlankLines
  /\ Surviving("left") # 1..Len(leftLines)
  /\ Len(result) = 3
  /\ TypesIn(diff) = {"modified", "deleted"}

\* C2. Idempotence: with default options, diffing a line sequence against
\* itself gives one entry per line, all unchanged, the k-th numbered k on
\* both sides.
C2_Idempotence ==
  (Rendered /\ options = DefaultOptions /\ leftLines = rightLines) =>
    /\ Len(diff) = Len(leftLines)
    /\ \A k \in 1..Len(diff) :
         /\ diff[k].type = "unchanged"
         /\ diff[k].leftLineNum = k
         /\ diff[k].rightLineNum = k

\* Three identical lines on both sides, a repeated line among them.
C2_Witness ==
  /\ Rendered
  /\ options = DefaultOptions
  /\ leftLines = rightLines
  /\ Len(leftLines) = MaxLen
  /\ leftLines[1] = leftLines[MaxLen]
  /\ leftLines[1] # leftLines[2]
  /\ Len(diff) = MaxLen

\* C3. Entry shape: unchanged and modified entries carry a line and a number
\* on both sides; a deleted entry carries them on the left only, an added
\* entry on the right only; no entry is empty on both sides.
C3_EntryShape ==
  Rendered =>
    \A k \in 1..Len(diff) :
      LET e      == diff[k]
          hasL   == e.leftLine # NullLine /\ e.leftLineNum # NullNum
          hasR   == e.rightLine # NullLine /\ e.rightLineNum # NullNum
          noL    == e.leftLine = NullLine /\ e.leftLineNum = NullNum
          noR    == e.rightLine = NullLine /\ e.rightLineNum = NullNum
      IN  /\ e.type \in {"unchanged", "modified", "deleted", "added"}
          /\ e.type \in {"unchanged", "modified"} => hasL /\ hasR
          /\ e.type = "deleted" => hasL /\ noR
          /\ e.type = "added" => noL /\ hasR
          /\ ~(noL /\ noR)

\* A diff holding a modified, an unchanged and an added entry.
C3_Witness ==
  /\ Rendered
  /\ TypesIn(diff) = {"modified", "unchanged", "added"}

\* Whether sub is a subsequence of s.
RECURSIVE IsSubsequence(_, _)
IsSubsequence(sub, s) ==
  IF sub = <<>> THEN TRUE
  ELSE IF s = <<>> THEN FALSE
  ELSE IF Head(sub) = Head(s) THEN IsSubsequence(Tail(sub), Tail(s))
  ELSE IsSubsequence(sub, Tail(s))

\* The elements of s at the positions in idx, in order.
RECURSIVE Pick(_, _, _)
Pick(s, idx, k) ==
  IF k > Len(s) THEN <<>>
  ELSE IF k \in idx THEN <<s[k]>> \o Pick(s, idx, k + 1)
  ELSE Pick(s, idx, k + 1)

\* The length of a longest common subsequence, by enumeration of every
\* subsequence of a.
LongestCommonLength(a, b) ==
  LET common == { idx \in SUBSET (1..Len(a)) : IsSubsequence(Pick(a, idx, 1), b) }
  IN  CHOOSE n \in 0..Len(a) :
        /\ \E idx \in common : Cardinality(idx) = n
        /\ \A idx \in common : Cardinality(idx) <= n

\* C4. computeLCS returns matched pairs with equal keys, strictly increasing
\* in leftIndex and in rightIndex, and as many of them as a longest common
\* subsequence of the two key sequences has elements.
C4_ValidLCS ==
  Rendered =>
    /\ \A k \in 1..Len(lcs) :
         /\ lcs[k].leftIndex \in 0..(Len(leftProcessed) - 1)
         /\ lcs[k].rightIndex \in 0..(Len(rightProcessed) - 1)
         /\ leftProcessed[lcs[k].leftIndex + 1] = rightProcessed[lcs[k].rightIndex + 1]
         /\ lcs[k].value = leftProcessed[lcs[k].leftIndex + 1]
    /\ \A k \in 1..(Len(lcs) - 1) :
         /\ lcs[k].leftIndex < lcs[k + 1].leftIndex
         /\ lcs[k].rightIndex < lcs[k + 1].rightIndex
    /\ Len(lcs) = LongestCommonLength(leftProcessed, rightProcessed)

\* Two key sequences with several longest common subsequences of length 2,
\* none of them the whole of either sequence.
C4_Witness ==
  /\ Rendered
  /\ Len(leftProcessed) = 3
  /\ Len(rightProcessed) = 3
  /\ leftProcessed # rightProcessed
  /\ Cardinality({ leftProcessed[k] : k \in 1..3 }) = 3
  /\ Len(lcs) = 2
  /\ lcs[1].leftIndex # lcs[1].rightIndex

\* The line numbers the entries carry on a side, in diff order.
RECURSIVE NumsFrom(_, _, _)
NumsFrom(entries, side, k) ==
  IF k > Len(entries) THEN <<>>
  ELSE IF LineNumOn(entries[k], side) # NullNum
       THEN <<LineNumOn(entries[k], side)>> \o NumsFrom(entries, side, k + 1)
       ELSE NumsFrom(entries, side, k + 1)

\* The elements of a set of numbers between lo and hi, in increasing order.
RECURSIVE Ascending(_, _, _)
Ascending(S, lo, hi) ==
  IF lo > hi THEN <<>>
  ELSE IF lo \in S THEN <<lo>> \o Ascending(S, lo + 1, hi)
  ELSE Ascending(S, lo + 1, hi)

TypeSeq(entries) == [k \in 1..Len(entries) |-> entries[k].type]

\* C5. Line numbers are 1-based positions in the original, unfiltered input:
\* read in diff order, the numbers on a side are exactly the surviving
\* original positions in increasing order, so under ignoreBlankLines a blank
\* line is in no entry and a line after it keeps its original number.
C5_OriginalNumbering ==
  Rendered =>
    \A side \in Sides :
      NumsFrom(diff, side, 1) = Ascending(Surviving(side), 1, Len(InputOn(side)))

\* The documented scenario: under ignoreBlankLines, a blank line between two
\* left lines that both match; two unchanged entries numbered 1/1 and 3/2.
C5_Witness ==
  /\ Rendered
  /\ options = [DefaultOptions EXCEPT !.ignoreBlankLines = TRUE]
  /\ Len(leftLines) = 3
  /\ AllWhitespace(leftLines[2])
  /\ rightLines = <<leftLines[1], leftLines[3]>>
  /\ leftLines[1] # leftLines[3]
  /\ TypeSeq(diff) = <<"unchanged", "unchanged">>
  /\ NumsFrom(diff, "left", 1) = <<1, 3>>
  /\ NumsFrom(diff, "right", 1) = <<1, 2>>

\* C6. The options never alter stored text: under any options, the text an
\* entry carries on a side is the raw input line at the entry's line number
\* on that side, also for unchanged entries whose two raw texts differ.
C6_RawTextKept ==
  Rendered =>
    \A side \in Sides : \A k \in 1..Len(diff) :
      IF LineNumOn(diff[k], side) = NullNum
      THEN LineOn(diff[k], side) = NullLine
      ELSE /\ LineNumOn(diff[k], side) \in 1..Len(InputOn(side))
           /\ LineOn(diff[k], side) = InputOn(side)[LineNumOn(diff[k], side)]

\* An unchanged entry whose raw left and right texts differ (their keys are
\* equal only because case and whitespace are ignored).
C6_Witness ==
  /\ Rendered
  /\ \E k \in 1..Len(diff) :
       /\ diff[k].type = "unchanged"
       /\ diff[k].leftLine # diff[k].rightLine
       /\ diff[k].leftLineNum # diff[k].rightLineNum

\* For a raw delete at p: the first and last position of its maximal run of
\* deletes, and the number of adds that directly follow the run.
RunFirst(entries, p) ==
  CHOOSE s \in 1..p :
    /\ \A q \in s..p : entries[q].type = entries[p].type
    /\ (s = 1 \/ entries[s - 1].type # entries[p].type)

RunLast(entries, p) ==
  CHOOSE e \in p..Len(entries) :
    /\ \A q \in p..e : entries[q].type = entries[p].type
    /\ (e = Len(entries) \/ entries[e + 1].type # entries[p].type)

\* The length of the delete run that ends directly before the add run of p.
DeletesBefore(entries, p) ==
  LET s == RunFirst(entries, p)
  IN  IF s > 1 /\ entries[s - 1].type = "deleted"
      THEN s - RunFirst(entries, s - 1)
      ELSE 0

\* The length of the add run that starts directly after the delete run of p.
AddsAfter(entries, p) ==
  LET e == RunLast(entries, p)
  IN  IF e < Len(entries) /\ entries[e + 1].type = "added"
      THEN RunLast(entries, e + 1) - e
      ELSE 0

RankInRun(entries, p) == p - RunFirst(entries, p) + 1

\* The k-th delete of a run is paired when the add run after it has a k-th
\* add; the k-th add when the delete run before it has a k-th delete.
IsPaired(entries, p) ==
  \/ entries[p].type = "deleted" /\ RankInRun(entries, p) <= AddsAfter(entries, p)
  \/ entries[p].type = "added" /\ RankInRun(entries, p) <= DeletesBefore(entries, p)

\* The add paired with the paired delete at p.
PartnerOf(entries, p) == RunLast(entries, p) + RankInRun(entries, p)

\* Positional merging, stated on the raw operations: a paired delete becomes
\* a modified entry with its partner's right side, a paired add disappears,
\* every other entry stays where it is.
RECURSIVE PositionalMerge(_, _)
PositionalMerge(entries, p) ==
  IF p > Len(entries) THEN <<>>
  ELSE IF ~IsPaired(entries, p)
       THEN <<entries[p]>> \o PositionalMerge(entries, p + 1)
       ELSE IF entries[p].type = "added"
            THEN PositionalMerge(entries, p + 1)
            ELSE << [type |-> "modified",
                     leftLine |-> entries[p].leftLine,
                     leftLineNum |-> entries[p].leftLineNum,
                     rightLine |-> entries[PartnerOf(entries, p)].rightLine,
                     rightLineNum |-> entries[PartnerOf(entries, p)].rightLineNum] >>
                 \o PositionalMerge(entries, p + 1)

\* C7. Block merging is strictly positional: for a maximal run of d deletes
\* directly followed by a maximal run of a adds, the diff holds min(d, a)
\* modified entries, the k-th pairing the k-th delete with the k-th add,
\* then the excess deletes or adds in order; every other raw entry passes
\* through unchanged and in order.
C7_PositionalMerge ==
  Rendered => diff = PositionalMerge(result, 1)

\* After a match, one delete met two adds: one pair, one excess add.
C7_Witness ==
  /\ Rendered
  /\ TypeSeq(result) = <<"unchanged", "deleted", "added", "added">>
  /\ TypeSeq(diff) = <<"unchanged", "modified", "added">>
  /\ diff[2].rightLineNum = 2
  /\ diff[3].rightLineNum = 3

RECURSIVE SumHeights(_)
SumHeights(zones) ==
  IF zones = <<>> THEN 0 ELSE Head(zones).heightInLines + SumHeights(Tail(zones))

ZonesOn(side) == IF side = "left" THEN leftViewZones ELSE rightViewZones

DecorationsOn(side) == IF side = "left" THEN leftDecorations ELSE rightDecorations

OtherSide(side) == IF side = "left" THEN "right" ELSE "left"

\* The positions of diff whose entry has no line on the side but has one on
\* the other side.
GapEntries(side) ==
  { k \in 1..Len(diff) :
      /\ LineNumOn(diff[k], side) = NullNum
      /\ LineNumOn(diff[k], OtherSide(side)) # NullNum }

\* C8. Alignment sum: for either side, the heights of the view zones add up
\* to the number of entries that have no line on that side but one on the
\* other: the added entries for the left side, the deleted ones for the
\* right side.
C8_AlignmentSum ==
  Rendered =>
    /\ \A side \in Sides :
         SumHeights(ZonesOn(side)) = Cardinality(GapEntries(side))
    /\ SumHeights(leftViewZones) = CountType(diff, "added")
    /\ SumHeights(rightViewZones) = CountType(diff, "deleted")

\* Two separate gaps on the left (before the first line and after it), and
\* so two left zones.
C8_Witness ==
  /\ Rendered
  /\ TypeSeq(diff) = <<"added", "unchanged", "added">>
  /\ Len(leftViewZones) = 2
  /\ leftViewZones[1].afterLineNumber = 0
  /\ leftViewZones[2].afterLineNumber = 1
  /\ rightViewZones = <<>>

\* The total height of the zones placed above line n.
RECURSIVE HeightAbove(_, _)
HeightAbove(zones, n) ==
  IF zones = <<>> THEN 0
  ELSE (IF Head(zones).afterLineNumber < n THEN Head(zones).heightInLines ELSE 0)
         + HeightAbove(Tail(zones), n)

\* The display row of line n of a pane: the lines and the zones above it.
DisplayRow(side, n) == n + HeightAbove(ZonesOn(side), n)

\* C9. Visual alignment: for every input and every option setting, with the
\* view zones inserted into the panes showing the full original texts, the
\* left and the right line of every unchanged or modified entry are on the
\* same display row.
C9_VisualAlignment ==
  Rendered =>
    \A k \in 1..Len(diff) :
      diff[k].type \in {"unchanged", "modified"} =>
        DisplayRow("left", diff[k].leftLineNum) = DisplayRow("right", diff[k].rightLineNum)

\* The category the mapping table gives an entry type on a side.
Category(type, side) ==
  CASE type = "deleted"   -> IF side = "left" THEN "deleted" ELSE "none"
    [] type = "added"     -> IF side = "left" THEN "none" ELSE "added"
    [] type = "modified"  -> "modified"
    [] type = "unchanged" -> "none"

ClassOfCategory(category) ==
  CASE category = "deleted"  -> "diff-line-deleted"
    [] category = "added"    -> "diff-line-added"
    [] category = "modified" -> "diff-line-modified"

\* The positions of diff, in order, whose entry has a category on the side.
RECURSIVE Categorised(_, _)
Categorised(side, k) ==
  IF k > Len(diff) THEN <<>>
  ELSE IF Category(diff[k].type, side) # "none"
       THEN <<k>> \o Categorised(side, k + 1)
       ELSE Categorised(side, k + 1)

\* C10. Decoration mapping: getLineDecorations(diff, side) holds exactly one
\* decoration per entry whose category on the side is not none under the
\* table, in diff order, on the entry's line number on that side; so no
\* decoration belongs to an unchanged entry, the left count is deleted +
\* modified, the right count is added + modified, and both sides together
\* hold at most twice as many decorations as the diff has entries.
C10_DecorationMapping ==
  Rendered =>
    /\ \A side \in Sides :
         LET at   == Categorised(side, 1)
             decs == DecorationsOn(side)
         IN  /\ Len(decs) = Len(at)
             /\ \A k \in 1..Len(decs) :
                  /\ decs[k].startLineNumber = LineNumOn(diff[at[k]], side)
                  /\ decs[k].endLineNumber = LineNumOn(diff[at[k]], side)
                  /\ decs[k].startLineNumber # NullNum
                  /\ decs[k].className = ClassOfCategory(Category(diff[at[k]].type, side))
                  /\ diff[at[k]].type # "unchanged"
    /\ Len(leftDecorations) = CountType(diff, "deleted") + CountType(diff, "modified")
    /\ Len(rightDecorations) = CountType(diff, "added") + CountType(diff, "modified")
    /\ Len(leftDecorations) + Len(rightDecorations) <= 2 * Len(diff)

\* A modified, a deleted and an unchanged entry: two decorations on the left
\* (modified, deleted), one on the right (modified).
C10_Witness ==
  /\ Rendered
  /\ TypeSeq(diff) = <<"modified", "deleted", "unchanged">>
  /\ Len(leftDecorations) = 2
  /\ Len(rightDecorations) = 1
  /\ rightDecorations[1].className = "diff-line-modified"

RECURSIVE WordsOf(_, _)
WordsOf(line, word) ==
  IF line = <<>> THEN (IF word = <<>> THEN <<>> ELSE <<word>>)
  ELSE IF IsSpace(Head(line))
       THEN (IF word = <<>> THEN <<>> ELSE <<word>>) \o WordsOf(Tail(line), <<>>)
       ELSE WordsOf(Tail(line), Append(word, Head(line)))

\* Words separated by single spaces.
RECURSIVE JoinWords(_)
JoinWords(words) ==
  IF words = <<>> THEN <<>>
  ELSE IF Len(words) = 1 THEN words[1]
  ELSE words[1] \o <<" ">> \o JoinWords(Tail(words))

\* The comparison key as documented: whitespace runs collapsed to one space
\* and the ends trimmed under ignoreWhitespace, then lower-cased under
\* ignoreCase; the raw line with neither.
DocumentedKey(line) ==
  LET spaced == IF options.ignoreWhitespace THEN JoinWords(WordsOf(line, <<>>)) ELSE line
  IN  IF options.ignoreCase
      THEN [k \in 1..Len(spaced) |-> IF spaced[k] = "A" THEN "a" ELSE spaced[k]]
      ELSE spaced

KeysOn(side) == IF side = "left" THEN leftProcessed ELSE rightProcessed

PairwiseEqualKeys ==
  /\ Len(leftLines) = Len(rightLines)
  /\ \A k \in 1..Len(leftLines) : DocumentedKey(leftLines[k]) = DocumentedKey(rightLines[k])

\* C20. Key normalization decides equality: the keys handed to the matcher
\* are the documented keys of the lines that take part; two inputs of equal
\* length with pairwise equal keys give only unchanged entries; and the two
\* lines of an unchanged entry always have equal keys.
C20_KeyNormalization ==
  Rendered =>
    /\ \A side \in Sides :
         LET at == Ascending(Surviving(side), 1, Len(InputOn(side)))
         IN  KeysOn(side) = [k \in 1..Len(at) |-> DocumentedKey(InputOn(side)[at[k]])]
    /\ PairwiseEqualKeys => TypesIn(diff) \subseteq {"unchanged"}
    /\ \A k \in 1..Len(diff) :
         diff[k].type = "unchanged" =>
           DocumentedKey(diff[k].leftLine) = DocumentedKey(diff[k].rightLine)

\* Two inputs that differ as raw text in every line but have pairwise equal
\* keys, because case and whitespace are ignored: only unchanged entries.
C20_Witness ==
  /\ Rendered
  /\ options.ignoreWhitespace /\ options.ignoreCase /\ ~options.ignoreBlankLines
  /\ Len(leftLines) = 2
  /\ PairwiseEqualKeys
  /\ \A k \in 1..2 : leftLines[k] # rightLines[k]
  /\ leftLines[1] # leftLines[2]
  /\ TypeSeq(diff) = <<"unchanged", "unchanged">>

----------------------------------------------------------------------------
(* Texts.  A text is a sequence of characters; "\n" separates its lines.   *)

MaxTextLines == 3

\* The lines the modelled texts are made of: the empty line, a plain line
\* and a line of the four characters escapeHtml replaces.
TextLines == { <<>>, <<"a">>, <<"&", "<", ">", "\"">> }

\* lines.join('\n')
RECURSIVE Join(_)
Join(lineSeq) ==
  IF lineSeq = <<>> THEN <<>>
  ELSE IF Len(lineSeq) = 1 THEN lineSeq[1]
  ELSE lineSeq[1] \o <<"\n">> \o Join(Tail(lineSeq))

\* code.split('\n'), read character by character; line is the line being
\* read.  The result always has at least one line.
RECURSIVE SplitFrom(_, _)
SplitFrom(code, line) ==
  IF code = <<>> THEN <<line>>
  ELSE IF Head(code) = "\n" THEN <<line>> \o SplitFrom(Tail(code), <<>>)
  ELSE SplitFrom(Tail(code), Append(line, Head(code)))

Split(code) == SplitFrom(code, <<>>)

\* The texts of one to MaxTextLines lines.
Texts == { Join(lineSeq) : lineSeq \in SeqsUpTo(TextLines, MaxTextLines) \ {<<>>} }

DigitChars == <<"0", "1", "2", "3", "4", "5", "6", "7", "8", "9">>

\* `${n}` for a number n >= 0: its decimal digits.
RECURSIVE ToDigits(_)
ToDigits(n) ==
  IF n < 10 THEN <<DigitChars[n + 1]>>
  ELSE ToDigits(n \div 10) \o <<DigitChars[(n % 10) + 1]>>

\* num || fallback for a line number: null and 0 are falsy.
OrElse(num, fallback) == IF num = NullNum \/ num = 0 THEN fallback ELSE num

----------------------------------------------------------------------------
(* generateUnifiedPatch                                                    *)

\* `--- ${leftFileName}` and `+++ ${rightFileName}` with the default names.
LeftHeader == <<"-", "-", "-", " ", "o", "r", "i", "g", "i", "n", "a", "l">>

RightHeader == <<"+", "+", "+", " ", "m", "o", "d", "i", "f", "i", "e", "d">>

\* `@@ -${hunkLeftStart},${hunkLeftCount} +${hunkRightStart},${hunkRightCount} @@`
RangeLine(leftStart, leftCount, rightStart, rightCount) ==
  <<"@", "@", " ", "-">> \o ToDigits(leftStart) \o <<",">> \o ToDigits(leftCount)
    \o <<" ", "+">> \o ToDigits(rightStart) \o <<",">> \o ToDigits(rightCount)
    \o <<" ", "@", "@">>

\* flushHunk: push the range line and the body of the open hunk, if any.
flushHunk(st) ==
  IF Len(st.currentHunk) > 0
  THEN [st EXCEPT !.lines = @ \o <<RangeLine(st.hunkLeftStart, st.hunkLeftCount,
                                             st.hunkRightStart, st.hunkRightCount)>>
                             \o st.currentHunk,
                  !.currentHunk = <<>>]
  ELSE st

\* Faulty variant of HunkStart: the hunk starts are counted from 0.
HunkStartZeroBased(st, entry) ==
  IF Len(st.currentHunk) = 0
  THEN [st EXCEPT !.hunkLeftStart = OrElse(entry.leftLineNum, st.leftLineNum) - 1,
                  !.hunkRightStart = OrElse(entry.rightLineNum, st.rightLineNum) - 1,
                  !.hunkLeftCount = 0,
                  !.hunkRightCount = 0]
  ELSE st

\* A changed entry met while no hunk is open starts one.
HunkStart(st, entry) ==
  IF Len(st.currentHunk) = 0
  THEN [st EXCEPT !.hunkLeftStart = OrElse(entry.leftLineNum, st.leftLineNum),
                  !.hunkRightStart = OrElse(entry.rightLineNum, st.rightLineNum),
                  !.hunkLeftCount = 0,
                  !.hunkRightCount = 0]
  ELSE st

\* Faulty variant of PatchUnchanged: an unchanged line inside an open hunk
\* is pushed but not counted.
PatchUnchangedUncounted(st, entry) ==
  [(IF Len(st.currentHunk) > 0
    THEN [st EXCEPT !.currentHunk = Append(@, <<" ">> \o entry.leftLine)]
    ELSE st)
   EXCEPT !.leftLineNum = @ + 1, !.rightLineNum = @ + 1]

\* The loop body for an unchanged entry.
PatchUnchanged(st, entry) ==
  [(IF Len(st.currentHunk) > 0
    THEN [st EXCEPT !.currentHunk = Append(@, <<" ">> \o entry.leftLine),
                    !.hunkLeftCount = @ + 1,
                    !.hunkRightCount = @ + 1]
    ELSE st)
   EXCEPT !.leftLineNum = @ + 1, !.rightLineNum = @ + 1]

\* Faulty variant of PatchChanged: a modified entry pushes its '+' line
\* before its '-' line.
PatchChangedPlusFirst(st, entry) ==
  IF entry.type = "deleted"
  THEN [st EXCEPT !.currentHunk = Append(@, <<"-">> \o entry.leftLine),
                  !.hunkLeftCount = @ + 1,
                  !.leftLineNum = @ + 1]
  ELSE IF entry.type = "added"
  THEN [st EXCEPT !.currentHunk = Append(@, <<"+">> \o entry.rightLine),
                  !.hunkRightCount = @ + 1,
                  !.rightLineNum = @ + 1]
  ELSE [st EXCEPT !.currentHunk = @ \o << <<"+">> \o entry.rightLine,
                                          <<"-">> \o entry.leftLine >>,
                  !.hunkLeftCount = @ + 1,
                  !.hunkRightCount = @ + 1,
                  !.leftLineNum = @ + 1,
                  !.rightLineNum = @ + 1]

\* The loop body for a deleted, added or modified entry, after HunkStart.
PatchChanged(st, entry) ==
  IF entry.type = "deleted"
  THEN [st EXCEPT !.currentHunk = Append(@, <<"-">> \o entry.leftLine),
                  !.hunkLeftCount = @ + 1,
                  !.leftLineNum = @ + 1]
  ELSE IF entry.type = "added"
  THEN [st EXCEPT !.currentHunk = Append(@, <<"+">> \o entry.rightLine),
                  !.hunkRightCount = @ + 1,
                  !.rightLineNum = @ + 1]
  ELSE IF entry.type = "modified"
  THEN [st EXCEPT !.currentHunk = @ \o << <<"-">> \o entry.leftLine,
                                          <<"+">> \o entry.rightLine >>,
                  !.hunkLeftCount = @ + 1,
                  !.hunkRightCount = @ + 1,
                  !.leftLineNum = @ + 1,
                  !.rightLineNum = @ + 1]
  ELSE st

\* for (const entry of diff) { ... }
RECURSIVE PatchLoop(_, _, _)
PatchLoop(diffSeq, k, st) ==
  IF k > Len(diffSeq) THEN st
  ELSE PatchLoop(diffSeq, k + 1,
                 IF diffSeq[k].type = "unchanged"
                 THEN PatchUnchanged(st, diffSeq[k])
                 ELSE PatchChanged(HunkStart(st, diffSeq[k]), diffSeq[k]))

\* The locals of generateUnifiedPatch before the loop.
PatchStart ==
  [lines |-> <<LeftHeader, RightHeader>>,
   leftLineNum |-> 1, rightLineNum |-> 1,
   currentHunk |-> <<>>,
   hunkLeftStart |-> 0, hunkRightStart |-> 0,
   hunkLeftCount |-> 0, hunkRightCount |-> 0]

\* The patch lines pushed for a diff: the loop, then the one flushHunk call.
PatchLines(diffSeq) == flushHunk(PatchLoop(diffSeq, 1, PatchStart)).lines

\* generateUnifiedPatch with the default file names; computeLineDiff is
\* called without options.
generateUnifiedPatch(left, right) ==
  Join(PatchLines(computeLineDiff(Split(left), Split(right), DefaultOptions)))

----------------------------------------------------------------------------
(* generateHTMLReport                                                      *)

\* str.replace(/c/g, replacement) for a single character c.
RECURSIVE ReplaceAll(_, _, _)
ReplaceAll(str, c, replacement) ==
  IF str = <<>> THEN <<>>
  ELSE (IF Head(str) = c THEN replacement ELSE <<Head(str)>>)
         \o ReplaceAll(Tail(str), c, replacement)

AmpEntity == <<"&", "a", "m", "p", ";">>

LtEntity == <<"&", "l", "t", ";">>

GtEntity == <<"&", "g", "t", ";">>

QuotEntity == <<"&", "q", "u", "o", "t", ";">>

\* Faulty variant of escapeHtml: the ampersand is replaced last.
escapeHtmlAmpLast(str) ==
  IF str = NullLine \/ str = <<>> THEN <<>>
  ELSE ReplaceAll(ReplaceAll(ReplaceAll(ReplaceAll(str, "<", LtEntity), ">", GtEntity),
                             "\"", QuotEntity), "&", AmpEntity)

\* escapeHtml: '' for a missing or empty string, else the four replacements
\* in the order of the source.
escapeHtml(str) ==
  IF str = NullLine \/ str = <<>> THEN <<>>
  ELSE ReplaceAll(ReplaceAll(ReplaceAll(ReplaceAll(str, "&", AmpEntity), "<", LtEntity),
                             ">", GtEntity), "\"", QuotEntity)

\* `${num || ''}`
NumCell(num) == IF num = NullNum \/ num = 0 THEN <<>> ELSE ToDigits(num)

\* One <tr> of diffRows: its four cells and the classes of the two code
\* cells.
ReportRow(entry) ==
  [leftNum |-> NumCell(entry.leftLineNum),
   leftClass |-> IF entry.type \in {"deleted", "modified"}
                 THEN "diff-" \o entry.type ELSE "",
   leftCode |-> escapeHtml(entry.leftLine),
   rightNum |-> NumCell(entry.rightLineNum),
   rightClass |-> IF entry.type \in {"added", "modified"}
                  THEN "diff-" \o entry.type ELSE "",
   rightCode |-> escapeHtml(entry.rightLine)]

\* The stats memo of the App: the number of entries of each type.
RECURSIVE StatsFrom(_, _, _)
StatsFrom(diffSeq, k, acc) ==
  IF k > Len(diffSeq) THEN acc
  ELSE StatsFrom(diffSeq, k + 1, [acc EXCEPT ![diffSeq[k].type] = @ + 1])

StatsOf(diffSeq) == StatsFrom(diffSeq, 1, NoReport.stats)

\* What generateHTMLReport embeds in its template: the four counts and the
\* rows.  The texts themselves are not embedded.
generateHTMLReport(left, right, diffSeq, stats) ==
  [stats |-> stats, diffRows |-> [k \in 1..Len(diffSeq) |-> ReportRow(diffSeq[k])]]

----------------------------------------------------------------------------
(* The exports of the App, from the texts of the two editors.              *)

\* The variables of a render that an export does not compute.
NotRendered ==
  /\ leftProcessed = <<>>
  /\ rightProcessed = <<>>
  /\ lcs = <<>>
  /\ result = <<>>
  /\ leftDecorations = <<>>
  /\ rightDecorations = <<>>
  /\ leftViewZones = <<>>
  /\ rightViewZones = <<>>

\* The option settings of the exports: TextLines has no whitespace and no
\* upper-case letter, so ignoreBlankLines is the one option that can change
\* the diff of two texts.
ExportOptions == { o \in OptionSets : ~o.ignoreWhitespace /\ ~o.ignoreCase }

InitExport ==
  /\ leftCode \in Texts
  /\ rightCode \in Texts
  /\ options \in ExportOptions
  /\ pc = "input"
  /\ leftLines = <<>>
  /\ rightLines = <<>>
  /\ diff = <<>>
  /\ patch = <<>>
  /\ report = NoReport
  /\ NotRendered
  /\ LangIdle
  /\ AppIdle

\* exportPatch: generateUnifiedPatch on the two texts.  leftLines,
\* rightLines and diff take the values of its locals of the same names.
ExportPatch ==
  /\ pc = "input"
  /\ pc' = "patch"
  /\ leftLines' = Split(leftCode)
  /\ rightLines' = Split(rightCode)
  /\ diff' = computeLineDiff(leftLines', rightLines', DefaultOptions)
  /\ patch' = Join(PatchLines(diff'))
  /\ UNCHANGED << leftCode, rightCode, options, report >>
  /\ UNCHANGED << leftProcessed, rightProcessed, lcs, result,
                  leftDecorations, rightDecorations, leftViewZones, rightViewZones >>
  /\ UNCHANGED << langVars, appVars >>

\* exportHTML: generateHTMLReport on the diff and stats memos of the App.
ExportHTML ==
  /\ pc = "input"
  /\ pc' = "html"
  /\ leftLines' = Split(leftCode)
  /\ rightLines' = Split(rightCode)
  /\ diff' = computeLineDiff(leftLines', rightLines', options)
  /\ report' = generateHTMLReport(leftCode, rightCode, diff', StatsOf(diff'))
  /\ UNCHANGED << leftCode, rightCode, options, patch >>
  /\ UNCHANGED << leftProcessed, rightProcessed, lcs, result,
                  leftDecorations, rightDecorations, leftViewZones, rightViewZones >>
  /\ UNCHANGED << langVars, appVars >>

NextExport == ExportPatch \/ ExportHTML

SpecExport == InitExport /\ [][NextExport]_vars

----------------------------------------------------------------------------
(* Vocabulary of the properties of the exports: reading a patch text.      *)

Patched == pc = "patch"

IsRangeLine(line) == line # <<>> /\ Head(line) = "@"

\* The positions of the range lines among the patch lines pl.
RangeAt(pl) == { k \in 3..Len(pl) : IsRangeLine(pl[k]) }

IsDigit(c) == \E d \in 0..9 : DigitChars[d + 1] = c

DigitValue(c) == CHOOSE d \in 0..9 : DigitChars[d + 1] = c

\* The decimal number written in line from position pos on, and the position
\* after it.
RECURSIVE NumberAt(_, _, _)
NumberAt(line, pos, acc) ==
  IF pos <= Len(line) /\ IsDigit(line[pos])
  THEN NumberAt(line, pos + 1, 10 * acc + DigitValue(line[pos]))
  ELSE [value |-> acc, next |-> pos]

\* The four numbers of a range line '@@ -Ll,Nl +Lr,Nr @@', read back from
\* its characters.
ParseRange(line) ==
  LET ll == NumberAt(line, 5, 0)
      nl == NumberAt(line, ll.next + 1, 0)
      lr == NumberAt(line, nl.next + 2, 0)
      nr == NumberAt(line, lr.next + 1, 0)
  IN  [leftStart |-> ll.value, leftCount |-> nl.value,
       rightStart |-> lr.value, rightCount |-> nr.value]

\* The position of the last body line of the hunk whose range line is at k.
RECURSIVE BodyEnd(_, _)
BodyEnd(pl, k) ==
  IF k = Len(pl) \/ IsRangeLine(pl[k + 1]) THEN k ELSE BodyEnd(pl, k + 1)

\* The body lines of the hunk at k that start with one of the prefixes.
BodyWith(pl, k, prefixes) ==
  { b \in (k + 1)..BodyEnd(pl, k) : Head(pl[b]) \in prefixes }

\* The context and '+' lines of the patch lines from..to, without prefix.
RECURSIVE NewLines(_, _, _)
NewLines(pl, from, to) ==
  IF from > to THEN <<>>
  ELSE (IF Head(pl[from]) \in {" ", "+"} THEN <<Tail(pl[from])>> ELSE <<>>)
         \o NewLines(pl, from + 1, to)

\* Applying the hunks from patch line k on to lineSeq as a unified diff:
\* each hunk replaces the N left lines starting at left line L by its
\* context and '+' lines; nextLeft is the first left line not yet copied.
RECURSIVE ApplyFrom(_, _, _, _, _)
ApplyFrom(pl, k, lineSeq, nextLeft, out) ==
  IF k > Len(pl) THEN out \o SubSeq(lineSeq, nextLeft, Len(lineSeq))
  ELSE LET range == ParseRange(pl[k])
       IN  ApplyFrom(pl, BodyEnd(pl, k) + 1, lineSeq, range.leftStart + range.leftCount,
                     out \o SubSeq(lineSeq, nextLeft, range.leftStart - 1)
                         \o NewLines(pl, k + 1, BodyEnd(pl, k)))

\* The text a patch text produces from a text.
ApplyPatch(patchText, code) == Join(ApplyFrom(Split(patchText), 3, Split(code), 1, <<>>))

\* C11. Patch round-trip: applying the output of generateUnifiedPatch(left,
\* right) as a unified diff to the left text reproduces the right text
\* exactly.
C11_PatchRoundTrip == Patched => ApplyPatch(patch, leftCode) = rightCode

\* A patch whose hunk starts after an unchanged line, changes one line and
\* takes a following unchanged line as context, applied to the left text.
C11_Witness ==
  /\ Patched
  /\ TypeSeq(diff) = <<"unchanged", "modified", "unchanged">>
  /\ leftCode # rightCode
  /\ Cardinality(RangeAt(Split(patch))) = 1
  /\ ApplyPatch(patch, leftCode) = rightCode

\* The positions of diff that start a maximal run of changed entries.
ChangeRunStarts ==
  { e \in 1..Len(diff) :
      diff[e].type # "unchanged" /\ (e = 1 \/ diff[e - 1].type = "unchanged") }

\* C12. Hunk grouping: the patch has one range line per maximal run of
\* consecutive non-unchanged entries of the diff, so two runs of changed
\* entries separated by an unchanged entry are two hunks.
C12_HunkGrouping ==
  Patched => Cardinality(RangeAt(Split(patch))) = Cardinality(ChangeRunStarts)

\* The pairs <<k, e>> of a range line position k and the position e in diff
\* of the first changed entry of its hunk, found by reading the patch lines
\* from k on side by side with the entries from e on.
RECURSIVE HunkFirsts(_, _, _)
HunkFirsts(pl, k, e) ==
  IF k > Len(pl) \/ e > Len(diff) THEN {}
  ELSE IF IsRangeLine(pl[k])
       THEN (IF diff[e].type = "unchanged" THEN HunkFirsts(pl, k, e + 1)
             ELSE {<<k, e>>} \cup HunkFirsts(pl, k + 1, e))
       ELSE IF diff[e].type = "modified" THEN HunkFirsts(pl, k + 2, e + 1)
       ELSE HunkFirsts(pl, k + 1, e + 1)

\* One more than the number of entries before position e that have a line
\* on the side.
CounterAt(e, side) ==
  1 + Cardinality({ q \in 1..(e - 1) : LineNumOn(diff[q], side) # NullNum })

\* The counts of every range line are the numbers of body lines of its hunk
\* on each side.
RangeCounts(pl) ==
  \A k \in RangeAt(pl) :
    /\ ParseRange(pl[k]).leftCount = Cardinality(BodyWith(pl, k, {" ", "-"}))
    /\ ParseRange(pl[k]).rightCount = Cardinality(BodyWith(pl, k, {" ", "+"}))

\* C13 as stated. Hunk range line: Nl and Nr are the numbers of body lines
\* on the left and on the right, and Ll and Lr are the line numbers, on the
\* left and on the right, of the first changed entry of the hunk.
C13_HunkRangeLine ==
  Patched =>
    \A pl \in { Split(patch) } :
      /\ RangeCounts(pl)
      /\ \A pair \in HunkFirsts(pl, 3, 1) :
           /\ ParseRange(pl[pair[1]]).leftStart = diff[pair[2]].leftLineNum
           /\ ParseRange(pl[pair[1]]).rightStart = diff[pair[2]].rightLineNum

\* C13, amended. Hunk range line: Nl and Nr are the numbers of body lines on
\* the left and on the right; Ll (Lr) is the line number on that side of the
\* first changed entry of the hunk when the entry has a line there, and
\* otherwise one more than the number of lines of that side before it.
C13_HunkRangeLineAmended ==
  Patched =>
    \A pl \in { Split(patch) } : \A firsts \in { HunkFirsts(pl, 3, 1) } :
      /\ RangeCounts(pl)
      /\ RangeAt(pl) = { pair[1] : pair \in firsts }
      /\ \A pair \in firsts : \A side \in Sides :
           LET range == ParseRange(pl[pair[1]])
               start == IF side = "left" THEN range.leftStart ELSE range.rightStart
               num == LineNumOn(diff[pair[2]], side)
           IN  /\ num # NullNum => start = num
               /\ num = NullNum => start = CounterAt(pair[2], side)

\* A hunk that starts, after an unchanged line, with an added entry, which
\* has no left line: its left start is the running count, its left count
\* the context line that follows.
C13_Witness ==
  /\ Patched
  /\ TypeSeq(diff) = <<"unchanged", "added", "unchanged">>
  /\ \E k \in RangeAt(Split(patch)) :
       ParseRange(Split(patch)[k]) =
         [leftStart |-> 2, leftCount |-> 1, rightStart |-> 2, rightCount |-> 2]

\* C14 as stated. Resource ceiling: for some ceiling that the inputs can
\* exceed, no diff computation over inputs whose combined line count exceeds
\* the ceiling runs to completion.
C14_ResourceCeiling ==
  \E ceiling \in 0..(2 * MaxLen - 1) :
    Rendered => Len(leftLines) + Len(rightLines) <= ceiling

\* An export has run: the diff of the two texts has been computed.
Exported == pc \in {"patch", "html"}

\* C16 as stated. Empty text: with an empty left text and a non-empty right
\* text every entry of the diff is added, and with an empty right text and a
\* non-empty left text every entry is deleted.
C16_EmptyText ==
  Exported =>
    /\ (leftCode = <<>> /\ rightCode # <<>>) => TypesIn(diff) = {"added"}
    /\ (rightCode = <<>> /\ leftCode # <<>>) => TypesIn(diff) = {"deleted"}

ReportMade == pc = "html"

\* The entity of a reserved character, and any other character as it is.
EntityOf(c) ==
  CASE c = "&" -> <<"&", "a", "m", "p", ";">>
    [] c = "<" -> <<"&", "l", "t", ";">>
    [] c = ">" -> <<"&", "g", "t", ";">>
    [] c = "\"" -> <<"&", "q", "u", "o", "t", ";">>
    [] OTHER -> <<c>>

\* A line with each reserved character replaced by its entity, in one pass.
RECURSIVE Escaped(_)
Escaped(line) ==
  IF line = <<>> THEN <<>> ELSE EntityOf(Head(line)) \o Escaped(Tail(line))

\* The cells of a report row on a side.
NumCellOn(row, side) == IF side = "left" THEN row.leftNum ELSE row.rightNum

CodeCellOn(row, side) == IF side = "left" THEN row.leftCode ELSE row.rightCode

\* C18. Report escaping: the report has one row per diff entry, in diff
\* order; on a side the entry has, the number cell is the line number and
\* the content cell the line with every & < > " replaced by its entity, so
\* no < > or " is in any content cell; on a side the entry lacks, both
\* cells are empty.
C18_ReportEscaping ==
  ReportMade =>
    /\ Len(report.diffRows) = Len(diff)
    /\ \A k \in 1..Len(diff) : \A side \in Sides :
         \A cell \in { CodeCellOn(report.diffRows[k], side) } :
           /\ \A n \in 1..Len(cell) : cell[n] \notin {"<", ">", "\""}
           /\ LineNumOn(diff[k], side) = NullNum =>
                /\ cell = <<>>
                /\ NumCellOn(report.diffRows[k], side) = <<>>
           /\ LineNumOn(diff[k], side) # NullNum =>
                /\ cell = Escaped(LineOn(diff[k], side))
                /\ NumberAt(NumCellOn(report.diffRows[k], side), 1, 0) =
                     [value |-> LineNumOn(diff[k], side),
                      next |-> Len(NumCellOn(report.diffRows[k], side)) + 1]

\* A report with a row for a deleted line made of the four reserved
\* characters: the left cell holds the four entities, the right cells are
\* empty.
C18_Witness ==
  /\ ReportMade
  /\ \E k \in 1..Len(diff) :
       /\ diff[k].type = "deleted"
       /\ diff[k].leftLine = <<"&", "<", ">", "\"">>
       /\ Len(report.diffRows[k].leftCode) = 5 + 4 + 4 + 6
       /\ report.diffRows[k].rightCode = <<>>
       /\ report.diffRows[k].rightNum = <<>>
  /\ \E k \in 1..Len(diff) : diff[k].type = "unchanged"

----------------------------------------------------------------------------
(* detectLanguage                                                          *)

\* An absent text (null or undefined).
NullText == <<"null">>

\* prettier: null, a language without formatter.
NullFormatter == "null"

\* The rule list of detectLanguage, in its order, without the regular
\* expressions: what each of them says about the text is an input.
patterns ==
  << [monaco |-> "javascript", prettier |-> "babel"],
     [monaco |-> "typescript", prettier |-> "typescript"],
     [monaco |-> "html", prettier |-> "html"],
     [monaco |-> "css", prettier |-> "css"],
     [monaco |-> "json", prettier |-> "json"],
     [monaco |-> "python", prettier |-> NullFormatter],
     [monaco |-> "go", prettier |-> NullFormatter],
     [monaco |-> "rust", prettier |-> NullFormatter],
     [monaco |-> "java", prettier |-> NullFormatter],
     [monaco |-> "cpp", prettier |-> NullFormatter],
     [monaco |-> "yaml", prettier |-> "yaml"],
     [monaco |-> "graphql", prettier |-> "graphql"],
     [monaco |-> "markdown", prettier |-> "markdown"] >>

\* The return value of the guard and of the last line of detectLanguage.
PlainText == [monaco |-> "plaintext", prettier |-> "babel"]

\* !code
IsFalsy(code) == code = NullText \/ code = <<>>

\* Faulty variant of FirstMatch: a later matching pattern replaces an
\* earlier one.
RECURSIVE LastMatch(_, _)
LastMatch(k, matching) ==
  IF k > Len(patterns) THEN PlainText
  ELSE IF k \in matching /\ \A q \in matching : q <= k THEN patterns[k]
  ELSE LastMatch(k + 1, matching)

\* for (const pattern of patterns) from pattern k on, then the default;
\* matching is the set of patterns whose regex.test(code) is true.
RECURSIVE FirstMatch(_, _)
FirstMatch(k, matching) ==
  IF k > Len(patterns) THEN PlainText
  ELSE IF k \in matching THEN patterns[k]
  ELSE FirstMatch(k + 1, matching)

detectLanguage(code, matching) ==
  IF IsFalsy(code) THEN PlainText ELSE FirstMatch(1, matching)

\* A non-empty text; it stands for any, since detectLanguage looks at a text
\* through its regular expressions only.
SomeText == <<"a">>

\* The variables of the diff and of the exports while neither is modelled.
DiffIdle ==
  /\ leftLines = <<>>
  /\ rightLines = <<>>
  /\ options = DefaultOptions
  /\ diff = <<>>
  /\ NotRendered

InitLang ==
  /\ \/ langCode \in {NullText, <<>>} /\ matches = {}
     \/ langCode = SomeText /\ matches \in SUBSET (1..Len(patterns))
  /\ detected = [monaco |-> "", prettier |-> ""]
  /\ pc = "input"
  /\ DiffIdle
  /\ ExportIdle
  /\ AppIdle

\* One call of detectLanguage.
Detect ==
  /\ pc = "input"
  /\ pc' = "detected"
  /\ detected' = detectLanguage(langCode, matches)
  /\ UNCHANGED << langCode, matches, exportVars, appVars >>
  /\ UNCHANGED << leftLines, rightLines, options, diff, leftProcessed, rightProcessed,
                  lcs, result, leftDecorations, rightDecorations, leftViewZones,
                  rightViewZones >>

NextLang == Detect

SpecLang == InitLang /\ [][NextLang]_vars

Detected == pc = "detected"

\* C17. detectLanguage returns the pair of the first pattern of its list
\* that matches the text, so javascript/babel for a text that matches both
\* the javascript pattern and the python pattern; it returns plaintext with
\* formatter babel when no pattern matches or the text is empty or absent;
\* and it returns for every input.
C17_FirstMatch ==
  /\ pc = "input" => ENABLED Detect
  /\ Detected =>
       /\ (IsFalsy(langCode) \/ matches = {}) =>
            detected = [monaco |-> "plaintext", prettier |-> "babel"]
       /\ (~IsFalsy(langCode) /\ matches # {}) =>
            \E k \in matches :
              /\ \A q \in matches : k <= q
              /\ detected = patterns[k]
       /\ (~IsFalsy(langCode) /\ {1, 6} \subseteq matches) =>
            detected = [monaco |-> "javascript", prettier |-> "babel"]

\* A text matched by the javascript pattern, the python pattern and a later
\* one is classified as javascript.
C17_Witness ==
  /\ Detected
  /\ matches = {1, 6, 13}
  /\ detected.monaco = "javascript"
  /\ detected.prettier = "babel"

----------------------------------------------------------------------------
(* Formatting in the App: handleFormat and formatCode.                     *)

MaxAlerts == 2

\* The texts of the editors in the model of the App: the empty text, a text
\* that no pattern of detectLanguage matches, a text that the python
\* pattern matches and no earlier one, and a text of three lines.
PlainSample == <<"a">>

PythonSample == <<"d", "e", "f", " ", "a">>

ThreeLineSample == <<"a", "\n", "\n", "a">>

AppTexts == { <<>>, PlainSample, PythonSample, ThreeLineSample }

\* The patterns of detectLanguage whose regular expression matches a text
\* of AppTexts.
RegexMatches(code) == IF code = PythonSample THEN {6} ELSE {}

\* The leftLanguage / rightLanguage memo for a text.
LanguageOf(code) == detectLanguage(code, RegexMatches(code))

NotSupportedMessage == "Formatting not supported for this language"

FormatErrorMessage == "Formatting error"

\* Faulty variant of formatCode: a rejection of the formatter is swallowed
\* and the text is returned as it was given.
formatCodeSwallow(code, language, outcome) ==
  IF language = NullFormatter THEN [thrown |-> FALSE, value |-> code]
  ELSE IF outcome.rejected THEN [thrown |-> FALSE, value |-> code]
  ELSE [thrown |-> FALSE, value |-> outcome.value]

\* formatCode: what the call returns or that it throws, given how
\* prettier.format settles (outcome); without a language it returns the
\* text as it is, and a rejection is logged and thrown again.
formatCode(code, language, outcome) ==
  IF language = NullFormatter THEN [thrown |-> FALSE, value |-> code]
  ELSE IF outcome.rejected THEN [thrown |-> TRUE, value |-> code]
  ELSE [thrown |-> FALSE, value |-> outcome.value]

CodeOn(side) == IF side = "left" THEN leftCode ELSE rightCode

LanguageOn(side) == IF side = "left" THEN leftLanguage ELSE rightLanguage

\* setLeftCode / setRightCode, with the language memo of that side.
SetCode(side, code) ==
  IF side = "left"
  THEN /\ leftCode' = code
       /\ leftLanguage' = LanguageOf(code)
       /\ UNCHANGED << rightCode, rightLanguage >>
  ELSE /\ rightCode' = code
       /\ rightLanguage' = LanguageOf(code)
       /\ UNCHANGED << leftCode, leftLanguage >>

\* setLeftCode and setRightCode in one handler, with both language memos.
SetCodes(left, right) ==
  /\ leftCode' = left
  /\ rightCode' = right
  /\ leftLanguage' = LanguageOf(left)
  /\ rightLanguage' = LanguageOf(right)

\* The diff memo of the App for two texts and the options.
DiffOf(left, right, opts) == computeLineDiff(Split(left), Split(right), opts)

\* The diffIndices memo: the zero-based indices of the entries of a diff
\* that are not unchanged, in order.
RECURSIVE IndicesFrom(_, _)
IndicesFrom(d, k) ==
  IF k > Len(d) THEN <<>>
  ELSE IF d[k].type # "unchanged" THEN <<k - 1>> \o IndicesFrom(d, k + 1)
  ELSE IndicesFrom(d, k + 1)

DiffIndicesOf(d) == IndicesFrom(d, 1)

\* The memos that React computes again after a render in which a text or
\* the options changed.
DiffMemo ==
  /\ diff' = DiffOf(leftCode', rightCode', options')
  /\ diffIndices' = DiffIndicesOf(diff')

\* No text and no option changed: the memos stay.
TextsKept ==
  UNCHANGED << leftCode, rightCode, leftLanguage, rightLanguage, options, diff,
               diffIndices >>

FormattingKept == UNCHANGED << isFormatting, pending, alerts >>

\* The variables the model of the App leaves alone.
AppUnused ==
  /\ UNCHANGED << leftLines, rightLines, pc, leftProcessed, rightProcessed, lcs,
                  result, leftDecorations, rightDecorations, leftViewZones,
                  rightViewZones, langVars, patch, report >>

InitApp ==
  /\ leftCode \in AppTexts
  /\ rightCode \in AppTexts
  /\ leftLanguage = LanguageOf(leftCode)
  /\ rightLanguage = LanguageOf(rightCode)
  /\ isFormatting = [left |-> FALSE, right |-> FALSE]
  /\ pending = [left |-> NoRequest, right |-> NoRequest]
  /\ alerts = <<>>
  /\ patch = <<>>
  /\ report = NoReport
  /\ pc = "input"
  /\ leftLines = <<>>
  /\ rightLines = <<>>
  /\ options = DefaultOptions
  /\ diff = DiffOf(leftCode, rightCode, options)
  /\ diffIndices = DiffIndicesOf(diff)
  /\ currentDiffIndex = -1
  /\ NotRendered
  /\ LangIdle

\* onChange of an editor: the user types; nothing stops typing while a
\* formatting request is in flight.
EditText(side) ==
  /\ \E code \in AppTexts : code # CodeOn(side) /\ SetCode(side, code)
  /\ UNCHANGED << options, currentDiffIndex >>
  /\ DiffMemo
  /\ FormattingKept
  /\ AppUnused

\* handleFileDrop, when the FileReader has loaded the dropped file.
FileLoaded(side) ==
  /\ \E content \in AppTexts : SetCode(side, content)
  /\ UNCHANGED << options, currentDiffIndex >>
  /\ DiffMemo
  /\ FormattingKept
  /\ AppUnused

\* handleFormat up to its await; the Format button is disabled while the
\* side is being formatted.
HandleFormat(side) ==
  /\ ~isFormatting[side]
  /\ IF LanguageOn(side).prettier = NullFormatter
     THEN /\ Len(alerts) < MaxAlerts
          /\ alerts' = Append(alerts, NotSupportedMessage)
          /\ UNCHANGED << isFormatting, pending >>
     ELSE /\ isFormatting' = [isFormatting EXCEPT ![side] = TRUE]
          /\ pending' = [pending EXCEPT ![side] =
                           [code |-> CodeOn(side), language |-> LanguageOn(side).prettier]]
          /\ UNCHANGED alerts
  /\ TextsKept
  /\ UNCHANGED currentDiffIndex
  /\ AppUnused

\* Faulty variant of FormatSettled: without the finally block, a formatter
\* that rejects leaves the flag of the side set.
FormatSettledNoFinally(side, outcome) ==
  /\ pending[side] # NoRequest
  /\ \E call \in { formatCode(pending[side].code, pending[side].language, outcome) } :
       IF call.thrown
       THEN /\ Len(alerts) < MaxAlerts
            /\ alerts' = Append(alerts, FormatErrorMessage)
            /\ UNCHANGED << leftCode, rightCode, leftLanguage, rightLanguage >>
            /\ UNCHANGED isFormatting
       ELSE /\ SetCode(side, call.value)
            /\ UNCHANGED alerts
            /\ isFormatting' = [isFormatting EXCEPT ![side] = FALSE]
  /\ pending' = [pending EXCEPT ![side] = NoRequest]
  /\ UNCHANGED << options, currentDiffIndex >>
  /\ DiffMemo
  /\ AppUnused

\* handleFormat after its await, given what formatCode did.
FormatSettled(side, outcome) ==
  /\ pending[side] # NoRequest
  /\ \E call \in { formatCode(pending[side].code, pending[side].language, outcome) } :
       IF call.thrown
       THEN /\ Len(alerts) < MaxAlerts
            /\ alerts' = Append(alerts, FormatErrorMessage)
            /\ UNCHANGED << leftCode, rightCode, leftLanguage, rightLanguage >>
       ELSE /\ SetCode(side, call.value)
            /\ UNCHANGED alerts
  /\ isFormatting' = [isFormatting EXCEPT ![side] = FALSE]
  /\ pending' = [pending EXCEPT ![side] = NoRequest]
  /\ UNCHANGED << options, currentDiffIndex >>
  /\ DiffMemo
  /\ AppUnused

\* prettier.format resolves with some text.
FormatResolved(side) ==
  \E formatted \in AppTexts :
    FormatSettled(side, [rejected |-> FALSE, value |-> formatted])

\* prettier.format, or the import of a plugin, rejects.
FormatRejected(side) == FormatSettled(side, [rejected |-> TRUE, value |-> <<>>])

\* handleCopyAllToRight.
HandleCopyAllToRight ==
  /\ SetCode("right", leftCode)
  /\ UNCHANGED << options, currentDiffIndex >>
  /\ DiffMemo
  /\ FormattingKept
  /\ AppUnused

\* handleCopyAllToLeft.
HandleCopyAllToLeft ==
  /\ SetCode("left", rightCode)
  /\ UNCHANGED << options, currentDiffIndex >>
  /\ DiffMemo
  /\ FormattingKept
  /\ AppUnused

\* handleSwap.
HandleSwap ==
  /\ SetCodes(rightCode, leftCode)
  /\ UNCHANGED << options, currentDiffIndex >>
  /\ DiffMemo
  /\ FormattingKept
  /\ AppUnused

\* handleClear.
HandleClear ==
  /\ SetCodes(<<>>, <<>>)
  /\ currentDiffIndex' = -1
  /\ UNCHANGED options
  /\ DiffMemo
  /\ FormattingKept
  /\ AppUnused

NextApp ==
  \/ \E side \in {"left", "right"} :
       \/ EditText(side)
       \/ FileLoaded(side)
       \/ HandleFormat(side)
       \/ FormatResolved(side)
       \/ FormatRejected(side)
  \/ HandleCopyAllToRight
  \/ HandleCopyAllToLeft
  \/ HandleSwap
  \/ HandleClear

SpecApp == InitApp /\ [][NextApp]_vars

\* handleFormat(side) ends in this step.
FormatEnds(side) == pending[side] # NoRequest /\ pending'[side] = NoRequest

\* C19. Format failure is atomic: when the formatter rejects, the error
\* reaches handleFormat, which reports it, clears the flag of its side and
\* changes neither text; a handleFormat that ends, however it ends, leaves
\* the text of the other side alone; and when the language of the side has
\* no formatter, handleFormat reports that and changes no text, no flag and
\* starts no request.
C19_FormatFailureAtomic ==
  [][\A side \in Sides :
       /\ FormatRejected(side) =>
            /\ alerts' = Append(alerts, FormatErrorMessage)
            /\ ~isFormatting'[side]
            /\ leftCode' = leftCode /\ rightCode' = rightCode
       /\ (alerts' # alerts /\ alerts'[Len(alerts')] = FormatErrorMessage) =>
            /\ leftCode' = leftCode /\ rightCode' = rightCode
            /\ \E ended \in Sides : FormatEnds(ended)
       /\ FormatEnds(side) => CodeOn(OtherSide(side))' = CodeOn(OtherSide(side))
       /\ (HandleFormat(side) /\ LanguageOn(side).prettier = NullFormatter) =>
            /\ alerts' = Append(alerts, NotSupportedMessage)
            /\ UNCHANGED << leftCode, rightCode, isFormatting, pending >>
  ]_vars

\* The formatter has rejected a request for the left side while a request
\* for the right side is in flight and the right text has been edited since;
\* the left text is one the user typed (its language has no formatter, so
\* it is not the text that was sent).
C19_Witness ==
  /\ Len(alerts) > 0
  /\ alerts[Len(alerts)] = FormatErrorMessage
  /\ ~isFormatting["left"]
  /\ isFormatting["right"]
  /\ leftCode = PythonSample
  /\ pending["right"].code # rightCode

----------------------------------------------------------------------------
\* The matches the documented backtracking rule selects for the first i keys
\* of a and the first j keys of b: a match on equal keys; on unequal keys a
\* step to (i-1, j) only when the prefixes there have a strictly longer
\* common subsequence than those at (i, j-1), else a step to (i, j-1).
RECURSIVE TieBreakWalk(_, _, _, _)
TieBreakWalk(a, b, i, j) ==
  IF i = 0 \/ j = 0 THEN <<>>
  ELSE IF a[i] = b[j]
       THEN Append(TieBreakWalk(a, b, i - 1, j - 1),
                   [leftIndex |-> i - 1, rightIndex |-> j - 1, value |-> a[i]])
       ELSE IF LongestCommonLength(SubSeq(a, 1, i - 1), SubSeq(b, 1, j))
                 > LongestCommonLength(SubSeq(a, 1, i), SubSeq(b, 1, j - 1))
            THEN TieBreakWalk(a, b, i - 1, j)
            ELSE TieBreakWalk(a, b, i, j - 1)

\* Two keys A # B, left = [A, B] and right = [B, A].
Crossed ==
  /\ Len(leftProcessed) = 2
  /\ Len(rightProcessed) = 2
  /\ leftProcessed[1] # leftProcessed[2]
  /\ rightProcessed = <<leftProcessed[2], leftProcessed[1]>>

\* C21. Matcher tie-break: the matches computeLCS returns are those of the
\* backtracking rule that moves to (i-1, j) only on a strictly greater
\* length and otherwise, also on a tie, to (i, j-1); so left = [A, B]
\* against right = [B, A] gives the one match (leftIndex 1, rightIndex 0).
C21_TieBreak ==
  Rendered =>
    /\ lcs = TieBreakWalk(leftProcessed, rightProcessed,
                          Len(leftProcessed), Len(rightProcessed))
    /\ Crossed =>
         lcs = << [leftIndex |-> 1, rightIndex |-> 0, value |-> leftProcessed[2]] >>

\* The crossed input, diffed: B is matched, A is deleted on the left and
\* added on the right.
C21_Witness ==
  /\ Rendered
  /\ Crossed
  /\ Len(lcs) = 1
  /\ lcs[1].leftIndex = 1
  /\ lcs[1].rightIndex = 0

----------------------------------------------------------------------------
\* The positions of diff whose entry has no line on the side.
Lacking(side) == { k \in 1..Len(diff) : LineNumOn(diff[k], side) = NullNum }

\* The first positions of the maximal runs of entries without a line on the
\* side.
GapRunStarts(side) == { k \in Lacking(side) : (k - 1) \notin Lacking(side) }

\* The length of the run of entries without a line on the side from k on.
RECURSIVE GapRunLength(_, _)
GapRunLength(side, k) ==
  IF k \in Lacking(side) THEN 1 + GapRunLength(side, k + 1) ELSE 0

\* The line number on the side of the nearest entry before position k that
\* has one, or 0.
RECURSIVE LastLineBefore(_, _)
LastLineBefore(side, k) ==
  IF k <= 1 THEN 0
  ELSE IF LineNumOn(diff[k - 1], side) # NullNum THEN LineNumOn(diff[k - 1], side)
  ELSE LastLineBefore(side, k - 1)

\* C22. Zone placement and merging: for either side, the zones are, in
\* order, one per maximal run of consecutive entries without a line on that
\* side, each as high as its run is long and placed after the line of the
\* nearest earlier entry that has a line on that side, or after line 0; no
\* other zone exists, so an entry with a line on the side gives none.
C22_ZonePlacement ==
  Rendered =>
    \A side \in Sides :
      \A starts \in { Ascending(GapRunStarts(side), 1, Len(diff)) } :
        ZonesOn(side) =
          [z \in 1..Len(starts) |->
             [afterLineNumber |-> LastLineBefore(side, starts[z]),
              heightInLines |-> GapRunLength(side, starts[z])]]

\* A run of two added entries after a modified entry: the modified entry
\* gives no zone, the run one left zone of height 2 after left line 1.
C22_Witness ==
  /\ Rendered
  /\ TypeSeq(diff) = <<"modified", "added", "added">>
  /\ leftViewZones = << [afterLineNumber |-> 1, heightInLines |-> 2] >>
  /\ rightViewZones = <<>>

----------------------------------------------------------------------------
\* The patch lines pl without the range lines.
RECURSIVE WithoutRangeLines(_, _)
WithoutRangeLines(pl, k) ==
  IF k > Len(pl) THEN <<>>
  ELSE (IF k > 2 /\ IsRangeLine(pl[k]) THEN <<>> ELSE <<pl[k]>>)
         \o WithoutRangeLines(pl, k + 1)

\* The body lines the entries of diff from position k on contribute; open
\* tells whether a changed entry has been met before.
RECURSIVE BodyLinesFrom(_, _)
BodyLinesFrom(k, open) ==
  IF k > Len(diff) THEN <<>>
  ELSE (CASE diff[k].type = "deleted" -> << <<"-">> \o diff[k].leftLine >>
          [] diff[k].type = "added" -> << <<"+">> \o diff[k].rightLine >>
          [] diff[k].type = "modified" ->
               << <<"-">> \o diff[k].leftLine, <<"+">> \o diff[k].rightLine >>
          [] OTHER -> IF open THEN << <<" ">> \o diff[k].leftLine >> ELSE <<>>)
         \o BodyLinesFrom(k + 1, open \/ diff[k].type # "unchanged")

\* C23. Patch body serialization: the patch starts with the lines
\* '--- original' and '+++ modified'; apart from range lines, what follows
\* is, in diff order, a '-' line per deleted entry, a '+' line per added
\* entry, a '-' line then a '+' line per modified entry, a ' ' line per
\* unchanged entry after the first change and nothing per unchanged entry
\* before it; for identical texts the patch is the two header lines.
C23_PatchBody ==
  Patched =>
    \A pl \in { Split(patch) } :
      /\ WithoutRangeLines(pl, 1) =
           << <<"-", "-", "-", " ", "o", "r", "i", "g", "i", "n", "a", "l">>,
              <<"+", "+", "+", " ", "m", "o", "d", "i", "f", "i", "e", "d">> >>
             \o BodyLinesFrom(1, FALSE)
      /\ leftCode = rightCode => Len(pl) = 2

\* A patch for an unchanged line, a modified line and an unchanged line:
\* the first gives nothing, then come a '-', a '+' and a ' ' line.
C23_Witness ==
  /\ Patched
  /\ TypeSeq(diff) = <<"unchanged", "modified", "unchanged">>
  /\ Len(Split(patch)) = 2 + 1 + 3
  /\ Head(Split(patch)[4]) = "-"
  /\ Head(Split(patch)[5]) = "+"
  /\ Head(Split(patch)[6]) = " "

----------------------------------------------------------------------------
\* The kinds of two neighbouring changed entries that a block of modified
\* entries followed by entries of one kind can have.
BlockNeighbours ==
  { <<"modified", "modified">>, <<"modified", "deleted">>, <<"modified", "added">>,
    <<"deleted", "deleted">>, <<"added", "added">> }

\* C24. Canonical change blocks: in the diff computeLineDiff returns, every
\* maximal block of consecutive non-unchanged entries is zero or more
\* modified entries followed by only deleted or only added entries: no
\* deleted entry is next to an added one, and no modified entry directly
\* follows a deleted or added entry.
C24_CanonicalBlocks ==
  Rendered =>
    \A k \in 1..(Len(diff) - 1) :
      /\ (diff[k].type # "unchanged" /\ diff[k + 1].type # "unchanged") =>
           <<diff[k].type, diff[k + 1].type>> \in BlockNeighbours
      /\ {diff[k].type, diff[k + 1].type} # {"deleted", "added"}
      /\ diff[k].type \in {"deleted", "added"} => diff[k + 1].type # "modified"

\* A block of two deletes and one add, merged: a modified entry followed by
\* the excess delete.
C24_Witness ==
  /\ Rendered
  /\ TypeSeq(result) = <<"deleted", "deleted", "added", "unchanged">>
  /\ TypeSeq(diff) = <<"modified", "deleted", "unchanged">>

\* C25. Order preservation: along the diff computeLineDiff returns, under
\* any options, the left line numbers of the entries that have one are
\* strictly increasing and so are the right line numbers, modified entries
\* included.
C25_OrderPreservation ==
  Rendered =>
    \A side \in Sides : \A p \in 1..Len(diff) : \A q \in (p + 1)..Len(diff) :
      (LineNumOn(diff[p], side) # NullNum /\ LineNumOn(diff[q], side) # NullNum) =>
        LineNumOn(diff[p], side) < LineNumOn(diff[q], side)

\* Two deletes paired with two adds, then an excess add, under
\* ignoreBlankLines with a blank line dropped on the left: the numbers rise
\* on both sides and skip the blank line.
C25_Witness ==
  /\ Rendered
  /\ options.ignoreBlankLines
  /\ TypeSeq(diff) = <<"modified", "modified", "added">>
  /\ Len(leftLines) = 3
  /\ diff[2].leftLineNum = 3
  /\ diff[2].rightLineNum = 2

----------------------------------------------------------------------------
\* C30 as stated. Swap symmetry of statistics: with default options, the diff of
\* (right, left) has as many unchanged and as many modified entries as the
\* diff of (left, right), as many added entries as the other has deleted
\* ones, and as many deleted entries as the other has added ones.
C30_SwapSymmetry ==
  (Rendered /\ options = DefaultOptions) =>
    \A swapped \in { computeLineDiff(rightLines, leftLines, options) } :
      /\ CountType(swapped, "unchanged") = CountType(diff, "unchanged")
      /\ CountType(swapped, "modified") = CountType(diff, "modified")
      /\ CountType(swapped, "added") = CountType(diff, "deleted")
      /\ CountType(swapped, "deleted") = CountType(diff, "added")

\* C30, amended. Swap symmetry of statistics: with default options, the diff
\* of (right, left) has as many unchanged entries as the diff of (left,
\* right), as many entries with a right line (added or modified) as the
\* other has entries with a left line (deleted or modified), and as many
\* with a left line as the other has with a right line; the modified counts
\* themselves can differ.
C30_SwapSymmetryAmended ==
  (Rendered /\ options = DefaultOptions) =>
    \A swapped \in { computeLineDiff(rightLines, leftLines, options) } :
      /\ CountType(swapped, "unchanged") = CountType(diff, "unchanged")
      /\ CountType(swapped, "added") + CountType(swapped, "modified")
           = CountType(diff, "deleted") + CountType(diff, "modified")
      /\ CountType(swapped, "deleted") + CountType(swapped, "modified")
           = CountType(diff, "added") + CountType(diff, "modified")

\* left = [X, X] against right = [X, Y]: one deleted and one added entry
\* around the unchanged one; swapped, the tie-break matches the first X and
\* the rest is one modified entry.
C30_Witness ==
  /\ Rendered
  /\ options = DefaultOptions
  /\ Len(leftLines) = 2 /\ Len(rightLines) = 2
  /\ leftLines[1] = leftLines[2]
  /\ rightLines[1] = leftLines[1]
  /\ rightLines[2] # leftLines[1]
  /\ TypeSeq(diff) = <<"deleted", "unchanged", "added">>
  /\ TypeSeq(computeLineDiff(rightLines, leftLines, options)) = <<"unchanged", "modified">>

(***************************************************************************)
(* Navigation in the App: goToNextDiff, goToPrevDiff, jumpToDiff and the   *)
(* options panel.                                                          *)

\* The % of JavaScript on integers: the remainder has the sign of the
\* dividend.
JsRem(a, n) == IF a >= 0 THEN a % n ELSE 0 - ((0 - a) % n)

Abs(x) == IF x < 0 THEN 0 - x ELSE x

\* nextIndex of goToNextDiff.
NextIndex(current, n) == JsRem(current + 1, n)

\* Faulty variant of PrevIndex: the length is not added before the remainder
\* is taken.
PrevIndexNoWrap(current, n) == JsRem(current - 1, n)

\* prevIndex of goToPrevDiff.
PrevIndex(current, n) == JsRem(current - 1 + n, n)

\* Array.prototype.indexOf on diffIndices: zero-based, -1 when absent.
RECURSIVE IndexFrom(_, _, _)
IndexFrom(list, x, k) ==
  IF k > Len(list) THEN -1
  ELSE IF list[k] = x THEN k - 1
  ELSE IndexFrom(list, x, k + 1)

IndexOf(list, x) == IndexFrom(list, x, 1)

\* The reduce of jumpToDiff, from position k on with prev the nearest so
\* far: a later index replaces it only when it is strictly nearer.
RECURSIVE NearestFrom(_, _, _, _)
NearestFrom(list, lineIndex, k, prev) ==
  IF k > Len(list) THEN prev
  ELSE NearestFrom(list, lineIndex, k + 1,
                   IF Abs(list[k] - lineIndex) < Abs(prev - lineIndex)
                   THEN list[k] ELSE prev)

\* The index jumpToDiff selects for a line index; with no difference the
\* reduce returns its initial value undefined, which indexOf does not find.
JumpIndex(list, lineIndex) ==
  IF IndexOf(list, lineIndex) # -1 THEN IndexOf(list, lineIndex)
  ELSE IF Len(list) = 0 THEN -1
  ELSE IndexOf(list, NearestFrom(list, lineIndex, 1, list[1]))

\* goToNextDiff: F8, mod+d, or the Next button.
GoToNextDiff ==
  /\ IF Len(diffIndices) = 0
     THEN UNCHANGED currentDiffIndex
     ELSE currentDiffIndex' = NextIndex(currentDiffIndex, Len(diffIndices))
  /\ TextsKept
  /\ FormattingKept
  /\ AppUnused

\* goToPrevDiff: shift+F8, shift+mod+d, or the Previous button.
GoToPrevDiff ==
  /\ IF Len(diffIndices) = 0
     THEN UNCHANGED currentDiffIndex
     ELSE currentDiffIndex' = PrevIndex(currentDiffIndex, Len(diffIndices))
  /\ TextsKept
  /\ FormattingKept
  /\ AppUnused

\* jumpToDiff: a click on a marker of the minimap, or mod+g with a line
\* number typed into the prompt.
JumpToDiff(lineIndex) ==
  /\ currentDiffIndex' = JumpIndex(diffIndices, lineIndex)
  /\ TextsKept
  /\ FormattingKept
  /\ AppUnused

\* A checkbox of the options panel is clicked.
ToggleOption(key) ==
  /\ options' = [options EXCEPT ![key] = ~@]
  /\ UNCHANGED << leftCode, rightCode, leftLanguage, rightLanguage, currentDiffIndex >>
  /\ DiffMemo
  /\ FormattingKept
  /\ AppUnused

NextNav ==
  \/ \E side \in {"left", "right"} : EditText(side)
  \/ \E key \in {"ignoreWhitespace", "ignoreCase", "ignoreBlankLines"} : ToggleOption(key)
  \/ HandleCopyAllToRight
  \/ HandleCopyAllToLeft
  \/ HandleSwap
  \/ HandleClear
  \/ GoToNextDiff
  \/ GoToPrevDiff
  \/ \E lineIndex \in -1 .. Len(diff) : JumpToDiff(lineIndex)

SpecNav == InitApp /\ [][NextNav]_vars

\* C26: with n >= 1 differences, goToNextDiff and goToPrevDiff leave
\* currentDiffIndex in 0..n-1 whatever it was before (-1, a valid index or a
\* stale index >= n); goToNextDiff moves from a valid index or -1 to the
\* next one and from n-1 to 0; with n = 0 both leave currentDiffIndex as it
\* is.
C26_NavigationInRange ==
  [][\A n \in { Len(diffIndices) } :
       /\ (GoToNextDiff \/ GoToPrevDiff) =>
            IF n = 0 THEN currentDiffIndex' = currentDiffIndex
            ELSE currentDiffIndex' \in 0 .. (n - 1)
       /\ (GoToNextDiff /\ n > 0 /\ currentDiffIndex \in -1 .. (n - 1)) =>
            currentDiffIndex' = IF currentDiffIndex = n - 1 THEN 0
                                ELSE currentDiffIndex + 1]_vars

\* The last of three differences is selected, which only navigation
\* reaches.
C26_Witness == Len(diffIndices) = 3 /\ currentDiffIndex = 2

\* What the indicator "Difference k of n" shows for k.
IndicatorK == IF Len(diffIndices) > 0 THEN currentDiffIndex + 1 ELSE 0

\* C27: in every reachable state currentDiffIndex is -1 or a valid index
\* into diffIndices, so that the indicator never shows k > n.
C27_SelectedDifference ==
  /\ currentDiffIndex = -1 \/ currentDiffIndex \in 0 .. (Len(diffIndices) - 1)
  /\ IndicatorK <= Len(diffIndices)

(***************************************************************************)
(* Formatting against the other handlers of the App.                       *)

RequestEnds(side) ==
  /\ pending[side] # NoRequest
  /\ pending' = [pending EXCEPT ![side] = NoRequest]

\* The App with the proviso that a formatter that was called settles: the
\* promise handleFormat awaits resolves or rejects, and the continuation of
\* handleFormat then runs.
SpecAppFair ==
  /\ SpecApp
  /\ WF_pending(RequestEnds("left"))
  /\ WF_pending(RequestEnds("right"))

\* The flag of a side is set exactly while a request of that side is in
\* flight.
FlagsFollowRequests ==
  \A side \in Sides : isFormatting[side] <=> pending[side] # NoRequest

\* A request that starts sets the flag of its side, a request that ends
\* clears it, and neither touches the flag of the other side.
FlagSteps ==
  \A side \in Sides :
    /\ (HandleFormat(side) /\ LanguageOn(side).prettier # NullFormatter) =>
         /\ isFormatting'[side]
         /\ isFormatting'[OtherSide(side)] = isFormatting[OtherSide(side)]
    /\ FormatEnds(side) =>
         /\ ~isFormatting'[side]
         /\ isFormatting'[OtherSide(side)] = isFormatting[OtherSide(side)]
         /\ FormatResolved(side) \/ FormatRejected(side)
    /\ RequestEnds(side) <=> FormatEnds(side)

\* C29: isFormatting[side] becomes true when a request with a supported
\* formatter starts on that side; given that the formatter settles, it
\* becomes false again, whether the formatter resolves or rejects; requests
\* of the two sides do not overwrite each other's flag, so that with no
\* request in flight both flags are false.
C29_FlagProtocol ==
  /\ []FlagsFollowRequests
  /\ [][FlagSteps]_vars
  /\ (isFormatting["left"] ~> ~isFormatting["left"])
  /\ (isFormatting["right"] ~> ~isFormatting["right"])

\* Requests of both sides are in flight at once.
C29_Witness ==
  /\ isFormatting["left"] /\ isFormatting["right"]
  /\ pending["left"] # NoRequest /\ pending["right"] # NoRequest

====
